---- MODULE Spec2Model ----
(***************************************************************************)
(* Model of babelapi's indentation-sensitive lexer                         *)
(* (src/babelapi/babel/lexer.py, class BabelLexer) running on top of the   *)
(* ply.lex scanning loop.  One action per rule handler of the lexer; the   *)
(* part of BabelLexer.token() that delivers the handler's result (fill the *)
(* pending queue, set last_token, return) is part of each action.          *)
(*                                                                         *)
(* Characters are one-character strings; texts are sequences of them.      *)
(***************************************************************************)
EXTENDS Integers, Sequences, FiniteSets, TLC

VARIABLES lexdata, lexpos, lineno, cur_indent, tokens_queue, last_token,
          errors, out, pc,
          data_type, request, response,
          namespace, classes,
          self

\* The lexer: the fields of BabelLexer and of its ply lexer, the tokens
\* returned so far and the state of the pull loop.
lexer_vars == <<lexdata, lexpos, lineno, cur_indent, tokens_queue, last_token,
                errors, out, pc>>

\* The codec: the schema type whose generated class is in use, the last
\* json_decode call and what it returned.
codec_vars == <<data_type, request, response>>

\* The generator: the data types of the namespace in the order the generator
\* takes them, and the classes of the module it has written so far.
gen_vars == <<namespace, classes>>

\* The program that uses a generated class: the instance it holds.
instance_vars == <<self>>

vars == <<lexer_vars, codec_vars, gen_vars, instance_vars>>

\* ------------------------------------------------------------------ bounds
\* Number of pieces an input file is built from.
MaxChunks == 5
\* Number of token() calls the caller makes after the end marker.
MaxExtraCalls == 1
\* Lists nested in the data types of the schema, and items in a native list.
MaxNesting == 1
MaxItems == 2
\* Supertypes above a struct of the schema.
MaxSupertypes == 2
\* Pieces between the quotes of a string literal.
MaxBody == 4

\* ------------------------------------------------------------- characters
NL == "\n"
SP == " "
TAB == "\t"
HASH == "#"
QUOTE == "\""
BSLASH == "\\"

\* The pieces input files are built from: an identifier letter, one space,
\* one indentation step, a newline, a comment start, a character no rule
\* matches, a string delimiter.
Indent4 == <<SP, SP, SP, SP>>
Pieces == {<<"a">>, <<SP>>, Indent4, <<NL>>, <<HASH>>, <<"$">>, <<QUOTE>>}

RECURSIVE Sources(_)
Sources(n) ==
    IF n = 0 THEN {<<>>}
    ELSE LET shorter == Sources(n - 1)
         IN shorter \cup {s \o p : s \in shorter, p \in Pieces}

\* ---------------------------------------------------------- text helpers
\* text[from..to] (1-based, inclusive), empty when from > to.
Slice(text, from, to) == [i \in 1..(to - from + 1) |-> text[from + i - 1]]

\* Python: text.count(c)
RECURSIVE Count(_, _)
Count(text, c) ==
    IF text = <<>> THEN 0
    ELSE (IF Head(text) = c THEN 1 ELSE 0) + Count(Tail(text), c)


\* Python: '\n'.join(lines)
RECURSIVE JoinLines(_)
JoinLines(lines) ==
    IF lines = <<>> THEN <<>>
    ELSE IF Len(lines) = 1 THEN lines[1]
    ELSE lines[1] \o <<NL>> \o JoinLines(Tail(lines))

\* Index of the first NL of text, 0 when there is none.
RECURSIVE FirstNL(_, _)
FirstNL(text, i) ==
    IF i > Len(text) THEN 0
    ELSE IF text[i] = NL THEN i
    ELSE FirstNL(text, i + 1)

\* Python: text.splitlines() (the only line boundary of the modelled
\* alphabet is NL; a final NL does not open a further line).
RECURSIVE SplitLines(_)
SplitLines(text) ==
    IF text = <<>> THEN <<>>
    ELSE LET n == FirstNL(text, 1)
         IN IF n = 0 THEN <<text>>
            ELSE <<Slice(text, 1, n - 1)>> \o SplitLines(Slice(text, n + 1, Len(text)))

\* text starts with prefix
StartsWith(text, prefix) ==
    /\ Len(prefix) <= Len(text)
    /\ \A i \in 1..Len(prefix) : text[i] = prefix[i]

\* Python: text.replace(old, '') : every non-overlapping occurrence of old,
\* found left to right, is removed; an empty old leaves the text as it is.
RECURSIVE RemoveAll(_, _)
RemoveAll(text, old) ==
    IF old = <<>> \/ text = <<>> THEN text
    ELSE IF StartsWith(text, old)
         THEN RemoveAll(Slice(text, Len(old) + 1, Len(text)), old)
         ELSE <<Head(text)>> \o RemoveAll(Tail(text), old)

\* Python: ' ' * n
Spaces(n) == [i \in 1..n |-> SP]

\* Python: len(line) - len(line.lstrip())
RECURSIVE LeadingWhitespace(_)
LeadingWhitespace(line) ==
    IF line # <<>> /\ Head(line) \in {SP, TAB}
    THEN 1 + LeadingWhitespace(Tail(line))
    ELSE 0

\* ------------------------------------------------------------- ply.lex
\* Character at the 0-based position pos (Python: lexdata[pos]).
At(data, pos) == data[pos + 1]

\* Python: lexdata[from:to]
Sub(data, from, to) == Slice(data, from + 1, to)

\* ply skips the characters of t_ignore before it tries the rules.
t_ignore == {SP, TAB}

RECURSIVE SkipIgnored(_, _)
SkipIgnored(data, pos) ==
    IF pos < Len(data) /\ At(data, pos) \in t_ignore
    THEN SkipIgnored(data, pos + 1)
    ELSE pos

\* First position >= pos whose character is not in cs (Len(data) if none).
RECURSIVE SkipWhile(_, _, _)
SkipWhile(data, pos, cs) ==
    IF pos < Len(data) /\ At(data, pos) \in cs
    THEN SkipWhile(data, pos + 1, cs)
    ELSE pos

\* First position >= pos whose character is c (Len(data) if none).
RECURSIVE Find(_, _, _)
Find(data, pos, c) ==
    IF pos < Len(data) /\ At(data, pos) # c
    THEN Find(data, pos + 1, c)
    ELSE pos

\* t_ID: [a-zA-Z_][a-zA-Z0-9_-]* over the modelled alphabet.
Letters == {"a", "n", "t"}
IdStartChars == Letters \cup {"_"}
IdChars == Letters \cup {"_", "-"}

\* End of the body of t_STRING's pattern \"([^\\"]|(\\.))*\" entered at pos
\* (just after the opening quote): the position after the closing quote,
\* or -1 when the pattern does not match.
RECURSIVE StringEnd(_, _)
StringEnd(data, pos) ==
    IF pos >= Len(data) THEN -1
    ELSE IF At(data, pos) = QUOTE THEN pos + 1
    ELSE IF At(data, pos) = BSLASH
         THEN IF pos + 1 < Len(data) /\ At(data, pos + 1) # NL
              THEN StringEnd(data, pos + 2)
              ELSE -1
    ELSE StringEnd(data, pos + 1)

\* End of t_comment's pattern [#][^\n]*\n+ at pos, or -1.
CommentEnd(data, pos) ==
    LET nl == Find(data, pos, NL)
    IN IF nl >= Len(data) THEN -1 ELSE SkipWhile(data, nl, {NL})

\* The rule of the master pattern that matches at pos and the end of the
\* match; rule "error" when none does.  Function rules come in the order of
\* their definition: t_ID, t_STRING, t_comment, t_NEWLINE (the other rules
\* match no character of the modelled alphabet).
Match(data, pos) ==
    LET c == At(data, pos)
    IN IF c \in IdStartChars
       THEN [rule |-> "ID", end |-> SkipWhile(data, pos, IdChars)]
       ELSE IF c = QUOTE /\ StringEnd(data, pos + 1) # -1
       THEN [rule |-> "STRING", end |-> StringEnd(data, pos + 1)]
       ELSE IF c = HASH /\ CommentEnd(data, pos) # -1
       THEN [rule |-> "comment", end |-> CommentEnd(data, pos)]
       ELSE IF c = NL
       THEN [rule |-> "NEWLINE", end |-> SkipWhile(data, pos, {NL})]
       ELSE [rule |-> "error", end |-> pos]

\* ------------------------------------------------------------ BabelLexer
\* A ply LexToken; _create_token builds the synthesized ones.
_create_token(token_type, value, line, pos) ==
    [lexpos |-> pos, lineno |-> line, value |-> value, type |-> token_type]

\* Python's None where a token is expected.
None == _create_token("None", <<>>, 0, 0)

\* What a rule function hands back to ply: one token, a MultiToken, nothing
\* (ply goes on scanning), or the fatal indentation exception.
OneToken(tok) == [kind |-> "token", tokens |-> <<tok>>]
MultiToken(tokens) == [kind |-> "multi", tokens |-> tokens]
NoToken == [kind |-> "none", tokens |-> <<>>]
IndentException == [kind |-> "raise", tokens |-> <<>>]

\* The lexer as a record: the fields of BabelLexer and of the ply lexer it
\* owns, the tokens token() has returned so far (out) and where the pull
\* loop stands (pc: "run", "done" once None was returned, "raised").
InitLexer(source) ==
    [lexdata |-> source \o <<NL>>, lexpos |-> 0, lineno |-> 1, cur_indent |-> 0,
     tokens_queue |-> <<>>, last_token |-> None, errors |-> <<>>,
     out |-> <<>>, pc |-> "run"]

\* The token ply builds for a match [pos, end) before it calls the rule.
PlyToken(s, rule, pos, end) ==
    _create_token(rule, Sub(s.lexdata, pos, end), s.lineno, pos)

\* t_ID: no text over the modelled alphabet is in KEYWORDS, the type stays ID.
t_ID(s, token) == [s |-> s, r |-> OneToken(token)]

\* Unescape whose flag is never cleared: once a backslash was met every
\* later character is taken as escaped.
RECURSIVE Unescape_sticky(_, _, _)
Unescape_sticky(body, i, escaped) ==
    IF i > Len(body) THEN <<>>
    ELSE LET c == body[i]
         IN IF escaped
            THEN <<(IF c = "n" THEN NL ELSE IF c = "t" THEN TAB ELSE c)>>
                 \o Unescape_sticky(body, i + 1, TRUE)
            ELSE IF c = BSLASH THEN Unescape_sticky(body, i + 1, TRUE)
            ELSE <<c>> \o Unescape_sticky(body, i + 1, FALSE)

\* t_STRING, the escape loop over the body s[i..]: escaped is the loop's flag.
RECURSIVE Unescape(_, _, _)
Unescape(body, i, escaped) ==
    IF i > Len(body) THEN <<>>
    ELSE LET c == body[i]
         IN IF escaped
            THEN <<(IF c = "n" THEN NL ELSE IF c = "t" THEN TAB ELSE c)>>
                 \o Unescape(body, i + 1, FALSE)
            ELSE IF c = BSLASH THEN Unescape(body, i + 1, TRUE)
            ELSE <<c>> \o Unescape(body, i + 1, FALSE)

\* t_STRING: "remove current indentation" from every line.
Deindent(new_str, indent) ==
    LET lines == SplitLines(new_str)
    IN JoinLines([i \in 1..Len(lines) |-> RemoveAll(lines[i], Spaces(indent))])

t_STRING(s, t) ==
    LET body == Slice(t.value, 2, Len(t.value) - 1)
        value == Deindent(Unescape(body, 1, FALSE), s.cur_indent)
    IN [s |-> [s EXCEPT !.lineno = @ + Count(t.value, NL)],
        r |-> OneToken([t EXCEPT !.value = value])]

\* t_NEWLINE line 276: the indent of the line that follows.
LineIndent(line) == LeadingWhitespace(line)

\* DentLineno two lines below the NEWLINE token.
DentLineno_two(newline_token) == newline_token.lineno + 2

\* t_NEWLINE line 283: the line number given to the INDENT/DEDENT tokens.
DentLineno(newline_token) == newline_token.lineno + 1

\* DentTokens with the repetition forgotten: one token however large the delta.
DentTokens_single(newline_token, indent_delta, next_line_pos) ==
    LET dent_type == IF indent_delta > 0 THEN "INDENT" ELSE "DEDENT"
        dent_token == _create_token(dent_type, <<TAB>>,
                                    newline_token.lineno + 1, next_line_pos)
    IN <<newline_token>> \o (IF indent_delta = 0 THEN <<>> ELSE <<dent_token>>)

\* t_NEWLINE lines 281-285: the tokens of the MultiToken.
DentTokens(newline_token, indent_delta, next_line_pos) ==
    LET dent_type == IF indent_delta > 0 THEN "INDENT" ELSE "DEDENT"
        dent_token == _create_token(dent_type, <<TAB>>,
                                    DentLineno(newline_token), next_line_pos)
        n == IF indent_delta < 0 THEN -indent_delta ELSE indent_delta
    IN <<newline_token>> \o [i \in 1..n |-> dent_token]

t_NEWLINE(s, newline_token) ==
    LET counted == [s EXCEPT !.lineno = @ + Count(newline_token.value, NL)]
        next_line_pos == newline_token.lexpos + Len(newline_token.value)
        line == Sub(s.lexdata, next_line_pos, Find(s.lexdata, next_line_pos, NL))
        indent == LineIndent(line)
        indent_spaces == indent - s.cur_indent
    IN IF next_line_pos = Len(s.lexdata) \/ line = <<>>
       THEN [s |-> counted, r |-> OneToken(newline_token)]
       ELSE IF indent_spaces % 4 > 0
       THEN [s |-> counted, r |-> IndentException]
       ELSE [s |-> [counted EXCEPT !.cur_indent = indent],
             r |-> MultiToken(DentTokens(newline_token, indent_spaces \div 4,
                                         next_line_pos))]

\* t_comment lines 244-256: the scan backwards from the comment to the
\* start of its line; TRUE when the comment takes the full line.
RECURSIVE IsFullLineComment(_, _)
IsFullLineComment(data, i) ==
    IF i < 0 THEN TRUE
    ELSE IF At(data, i) = NL THEN TRUE
    ELSE IF At(data, i) # SP THEN FALSE
    ELSE IsFullLineComment(data, i - 1)

\* CommentNewline without the call of the newline handler: the NEWLINE token
\* is returned as it is.
CommentNewline_plain(s, token) ==
    [s |-> [s EXCEPT !.lineno = @ + 1],
     r |-> OneToken(_create_token("NEWLINE", <<NL>>, token.lineno,
                                  token.lexpos + Len(token.value) - 1))]

\* t_comment lines 251-255: a partial-line comment hands a NEWLINE token to
\* the newline handler.
CommentNewline(s, token) ==
    t_NEWLINE(s, _create_token("NEWLINE", <<NL>>, token.lineno,
                               token.lexpos + Len(token.value) - 1))

t_comment(s, token) ==
    LET counted == [s EXCEPT !.lineno = @ + Count(token.value, NL)]
    IN IF IsFullLineComment(s.lexdata, token.lexpos - 1)
       THEN [s |-> counted, r |-> NoToken]
       ELSE CommentNewline(counted, token)

\* skip(2)
Skip_two(pos) == pos + 2

\* t_error line 298: token.lexer.skip(1)
Skip(pos) == pos + 1

\* t_error: token.value is the rest of the input from the bad character on.
t_error(s, pos) ==
    [s |-> [s EXCEPT !.errors = Append(@, <<At(s.lexdata, pos), s.lineno>>),
                     !.lexpos = Skip(pos)],
     r |-> NoToken]

\* ------------------------------------------------------ BabelLexer.token
\* tokens_queue.pop(): the last pending token instead of the first.
PopLast(queue) ==
    [tok |-> queue[Len(queue)], rest |-> Slice(queue, 1, Len(queue) - 1)]

\* tokens_queue.pop(0)
PopFirst(queue) == [tok |-> Head(queue), rest |-> Tail(queue)]

\* last_token = tokens_queue.pop(0); return last_token
ReturnQueued(s) ==
    LET popped == PopFirst(s.tokens_queue)
    IN [s EXCEPT !.tokens_queue = popped.rest,
                 !.last_token = popped.tok,
                 !.out = Append(@, popped.tok)]

\* EofTokens that closes one block only, however many are open.
EofTokens_one(s) ==
    LET newline_token == _create_token("NEWLINE", <<NL>>, s.lineno, s.lexpos)
        dedent_token == _create_token("DEDENT", <<TAB>>, s.lineno, s.lexpos)
    IN (IF s.last_token # None /\ s.last_token.type \notin {"NEWLINE", "LINE"}
        THEN <<newline_token>> ELSE <<>>)
       \o <<dedent_token>>

\* Lines 57-62: the tokens synthesized when the scanner is exhausted while
\* blocks are still open.
EofTokens(s) ==
    LET newline_token == _create_token("NEWLINE", <<NL>>, s.lineno, s.lexpos)
        dedent_token == _create_token("DEDENT", <<TAB>>, s.lineno, s.lexpos)
        dedent_count == s.cur_indent \div 4
    IN (IF s.last_token # None /\ s.last_token.type \notin {"NEWLINE", "LINE"}
        THEN <<newline_token>> ELSE <<>>)
       \o [i \in 1..dedent_count |-> dedent_token]

\* Lines 52-67 for what a rule function returned: a MultiToken fills the
\* queue, a token is returned as it is, the exception leaves token(), and
\* after nothing ply's loop goes on.
Deliver(s, r) ==
    IF r.kind = "multi"
    THEN ReturnQueued([s EXCEPT !.tokens_queue = @ \o r.tokens])
    ELSE IF r.kind = "token"
    THEN [s EXCEPT !.last_token = r.tokens[1], !.out = Append(@, r.tokens[1])]
    ELSE IF r.kind = "raise"
    THEN [s EXCEPT !.pc = "raised"]
    ELSE s

\* AtEof without lines 56-65: None is returned whatever the tracked indent.
AtEof_noclose(s) ==
    [s EXCEPT !.lexpos = SkipIgnored(s.lexdata, s.lexpos) + 1,
              !.last_token = None, !.pc = "done"]

\* ply found the end of the input (it leaves lexpos one past where it
\* stopped and returns None): lines 56-67.
AtEof(s) ==
    LET ended == [s EXCEPT !.lexpos = SkipIgnored(s.lexdata, s.lexpos) + 1]
    IN IF ended.cur_indent > 0
       THEN ReturnQueued([ended EXCEPT !.tokens_queue = @ \o EofTokens(ended),
                                       !.cur_indent = 0])
       ELSE [ended EXCEPT !.last_token = None, !.pc = "done"]

\* What ply's loop finds next: a rule, "error" or "eof".
NextRule(s) ==
    LET pos == SkipIgnored(s.lexdata, s.lexpos)
    IN IF pos >= Len(s.lexdata) THEN "eof" ELSE Match(s.lexdata, pos).rule

\* One round of ply's loop at a character some rule or t_error handles,
\* with what token() does with the outcome.
Scan(s) ==
    LET pos == SkipIgnored(s.lexdata, s.lexpos)
        m == Match(s.lexdata, pos)
        tok == PlyToken(s, m.rule, pos, m.end)
        matched == [s EXCEPT !.lexpos = m.end]
        h == IF m.rule = "ID" THEN t_ID(matched, tok)
             ELSE IF m.rule = "STRING" THEN t_STRING(matched, tok)
             ELSE IF m.rule = "comment" THEN t_comment(matched, tok)
             ELSE IF m.rule = "NEWLINE" THEN t_NEWLINE(matched, tok)
             ELSE t_error(s, pos)
    IN Deliver(h.s, h.r)

\* One step of the pull loop on the record.
Step(s) ==
    IF s.tokens_queue # <<>> THEN ReturnQueued(s)
    ELSE IF NextRule(s) = "eof" THEN AtEof(s)
    ELSE Scan(s)

\* tokenize: pull until the end marker or the fatal error.
RECURSIVE Tokenize(_)
Tokenize(s) == IF s.pc = "run" THEN Tokenize(Step(s)) ELSE s

\* ---------------------------------------------------- schema and classes
\* A validator of babel_validators: its kind and the validators it wraps.
Validator(kind, arg) == [kind |-> kind, arg |-> arg]
Int64 == Validator("Int64", <<>>)
String == Validator("String", <<>>)
Symbol == Validator("Symbol", <<>>)
Boolean == Validator("Boolean", <<>>)
Nullable(inner) == Validator("Nullable", <<inner>>)
List(item) == Validator("List", <<item>>)
\* List(item, min_items, max_items)
BoundedList(item, min_items, max_items) ==
    Validator("List", <<item, min_items, max_items>>)
\* An integer validator with its effective bounds.
Integer(kind, min_value, max_value) == Validator(kind, <<min_value, max_value>>)
\* Struct(S) and Union(U) for a generated class S or U.
Struct(definition) == Validator("Struct", <<definition>>)
Union(definition) == Validator("Union", <<definition>>)

IntegerKinds == {"Int64", "UInt32"}
\* The natural range of an integer type, each limit <<n>>.  Every integer of
\* the model lies within 64 bits and below 2^32, so only the floor of an
\* unsigned type is a limit the model can reach; NoLimit stands for the
\* others.
NoLimit == <<>>
Floor(kind) == IF kind = "UInt32" THEN <<0>> ELSE NoLimit
Ceiling(kind) == NoLimit
MinValue(validator) ==
    IF validator.arg = <<>> THEN Floor(validator.kind) ELSE validator.arg[1]
MaxValue(validator) ==
    IF validator.arg = <<>> THEN Ceiling(validator.kind) ELSE validator.arg[2]
InRange(validator, n) ==
    /\ MinValue(validator) # NoLimit => n >= MinValue(validator)[1]
    /\ MaxValue(validator) # NoLimit => n <= MaxValue(validator)[1]

\* A field of a schema type, with the validator _determine_validator_type
\* gives its data type.
Field(name, validator) == [validator |-> validator, name |-> name]

\* A union of the schema: its own fields, the name of its catch-all field
\* (NoField if it has none) and the union it extends (<<>> if none).
NoField == ""
UnionType(fields, catch_all_field, subtype) ==
    [fields |-> fields, catch_all_field |-> catch_all_field, subtype |-> subtype]
NoType == UnionType(<<>>, NoField, <<>>)

\* Python: a dict literal with one entry per field, a later entry of the
\* same name replacing an earlier one.
DictOf(fields) ==
    [k \in {fields[i].name : i \in 1..Len(fields)} |->
        LET last == CHOOSE i \in 1..Len(fields) :
                        /\ fields[i].name = k
                        /\ \A j \in (i + 1)..Len(fields) : fields[j].name # k
        IN fields[last].validator]

\* Python: d.update(other)
DictUpdate(d, other) ==
    [k \in DOMAIN d \cup DOMAIN other |-> IF k \in DOMAIN other THEN other[k] ELSE d[k]]

\* The _tagmap_ class attribute of the class generated for a union.
RECURSIVE TagMap(_)
TagMap(union) ==
    IF union.subtype # <<>>
    THEN DictUpdate(DictOf(union.fields), TagMap(union.subtype[1]))
    ELSE DictOf(union.fields)

\* CatchAll that never names a catch-all tag.
CatchAll_none(union) == NoField

\* The _catch_all_ class attribute as the generated class sees it: its own,
\* None for a union that extends nothing, else the inherited one.
RECURSIVE CatchAll(_)
CatchAll(union) ==
    IF union.catch_all_field # NoField THEN union.catch_all_field
    ELSE IF union.subtype = <<>> THEN NoField
    ELSE CatchAll(union.subtype[1])

\* ------------------------------------------------------------- the codec
\* JSON values.
JString(s) == [s |-> s, json |-> "string"]
JNumber(n) == [n |-> n, json |-> "number"]
JNull == [json |-> "null"]
JBool(b) == [json |-> "boolean", b |-> b]
\* A number that is not integral, in tenths.
JFloat(tenths) == [json |-> "float", tenths |-> tenths]
JArray(items) == [json |-> "array", items |-> items]
\* An object as the list of its keys and the list of their values.
JObject(keys, values) == [json |-> "object", keys |-> keys, values |-> values]

\* Native values.
PyNone == [py |-> "None"]
PyInt(n) == [n |-> n, py |-> "int"]
PyStr(s) == [s |-> s, py |-> "str"]
PyList(items) == [items |-> items, py |-> "list"]
PyBool(b) == [b |-> b, py |-> "bool"]
\* A float, held in tenths: PyFloat(14) is 1.4.
PyFloat(tenths) == [tenths |-> tenths, py |-> "float"]
\* object(): an instance of no generated class.
PyObject == [py |-> "object"]
\* An instance of a generated union class: U(tag, value).
UnionInstance(tag, value) == [value |-> value, py |-> "union", tag |-> tag]

\* What a codec call gives: a value, or a ValidationError.
Returned(value) == [value |-> value, ok |-> TRUE]
ValidationError == [ok |-> FALSE, error |-> "ValidationError"]

AttributeError == [ok |-> FALSE, error |-> "AttributeError"]
AssertionError == [ok |-> FALSE, error |-> "AssertionError"]
ValueError == [ok |-> FALSE, error |-> "ValueError"]
TypeError == [ok |-> FALSE, error |-> "TypeError"]

\* ------------------------------------------------- generated struct classes
\* A field of a struct: its validator, and its default if it has one.  The
\* field's data type is nullable exactly if the validator is a Nullable.
StructField(name, validator, has_default, default) ==
    [validator |-> validator, name |-> name,
     has_default |-> has_default, default |-> default]

\* A struct of the schema: its own fields and its supertype (<<>> if none).
StructType(fields, supertype) == [fields |-> fields, supertype |-> supertype]

\* The _fields_ class attribute: (name, validator) pairs.
RECURSIVE _fields_(_)
_fields_(struct) ==
    LET own == [i \in 1..Len(struct.fields) |->
                   <<struct.fields[i].name, struct.fields[i].validator>>]
    IN IF struct.supertype # <<>>
       THEN _fields_(struct.supertype[1]) \o own
       ELSE own

\* _field_names_ without the names of the supertype.
_field_names__own(struct) ==
    {struct.fields[i].name : i \in 1..Len(struct.fields)}

\* The _field_names_ class attribute.
RECURSIVE _field_names_(_)
_field_names_(struct) ==
    LET own == {struct.fields[i].name : i \in 1..Len(struct.fields)}
    IN IF struct.supertype # <<>>
       THEN _field_names_(struct.supertype[1]) \cup own
       ELSE own

\* The field whose property an attribute name resolves to: the struct's own,
\* else the one its supertype resolves.
RECURSIVE Property(_, _)
Property(struct, name) ==
    IF \E i \in 1..Len(struct.fields) : struct.fields[i].name = name
    THEN struct.fields[CHOOSE i \in 1..Len(struct.fields) :
                           /\ struct.fields[i].name = name
                           /\ \A j \in (i + 1)..Len(struct.fields) :
                                  struct.fields[j].name # name]
    ELSE Property(struct.supertype[1], name)

\* An instance of a generated struct class: _<f>_present and _<f>_value of
\* each of its fields.
StructInstance(present, value) ==
    [value |-> value, py |-> "struct", present |-> present]

\* No instance was constructed yet.
NoInstance == [py |-> "unbound"]

\* Getter in which a declared default goes before nullable.
Getter_default_first(struct, obj, name) ==
    LET field == Property(struct, name)
    IN IF obj.present[name] THEN Returned(obj.value[name])
       ELSE IF field.has_default THEN Returned(field.default)
       ELSE IF field.validator.kind = "Nullable" THEN Returned(PyNone)
       ELSE AttributeError

\* The property getter of a field.
Getter(struct, obj, name) ==
    LET field == Property(struct, name)
    IN IF obj.present[name] THEN Returned(obj.value[name])
       ELSE IF field.validator.kind = "Nullable" THEN Returned(PyNone)
       ELSE IF field.has_default THEN Returned(field.default)
       ELSE AttributeError

\* The property deleter of a field.
Deleter(obj, name) ==
    StructInstance([obj.present EXCEPT ![name] = FALSE],
                   [obj.value EXCEPT ![name] = PyNone])

\* -------------------------------------------------------------- validators
IsComposite(validator) ==
    \/ validator.kind \in {"Struct", "Union"}
    \/ validator.kind = "Nullable" /\ validator.arg[1].kind \in {"Struct", "Union"}

\* isinstance(x, numbers.Integral), booleans excluded.
IsIntegral(x) == x.py = "int"

IntOf(x) == IF x.py = "bool" THEN (IF x.b THEN 1 ELSE 0) ELSE x.n

\* Whether a list has as many items as the validator allows.
CountAllowed(validator, n) ==
    \/ Len(validator.arg) = 1
    \/ /\ validator.arg[2] # NoLimit => n >= validator.arg[2][1]
       /\ validator.arg[3] # NoLimit => n <= validator.arg[3][1]

\* validator.validate(x)
RECURSIVE ValidateValue(_, _)
ValidateValue(validator, x) ==
    IF validator.kind = "Nullable"
    THEN IF x = PyNone THEN Returned(PyNone)
         ELSE ValidateValue(validator.arg[1], x)
    ELSE IF validator.kind = "List"
    THEN IF x.py # "list" \/ ~CountAllowed(validator, Len(x.items))
         THEN ValidationError
         ELSE LET results == [i \in 1..Len(x.items) |->
                                 ValidateValue(validator.arg[1], x.items[i])]
              IN IF \E i \in 1..Len(results) : ~results[i].ok
                 THEN ValidationError
                 ELSE Returned(PyList([i \in 1..Len(results) |-> results[i].value]))
    ELSE IF validator.kind \in IntegerKinds
    THEN IF IsIntegral(x) /\ InRange(validator, IntOf(x))
         THEN Returned(x) ELSE ValidationError
    ELSE IF validator.kind = "String"
    THEN IF x.py = "str" THEN Returned(x) ELSE ValidationError
    ELSE IF validator.kind = "Boolean"
    THEN IF x.py = "bool" THEN Returned(x) ELSE ValidationError
    ELSE IF validator.kind = "Struct"
    THEN IF x.py = "struct" THEN Returned(x) ELSE ValidationError
    ELSE IF validator.kind = "Union"
    THEN IF x.py = "union" THEN Returned(x) ELSE ValidationError
    ELSE ValidationError

\* validator.validate_type_only(val)
ValidateTypeOnly(validator, val) ==
    LET inner == IF validator.kind = "Nullable" THEN validator.arg[1] ELSE validator
    IN IF val.py = (IF inner.kind = "Struct" THEN "struct" ELSE "union")
       THEN Returned(val) ELSE ValidationError

\* Setter that stores the value before it validates it.
Setter_store_first(struct, obj, name, val) ==
    LET field == Property(struct, name)
        checked == IF IsComposite(field.validator)
                   THEN ValidateTypeOnly(field.validator, val)
                   ELSE ValidateValue(field.validator, val)
    IN IF field.validator.kind = "Nullable" /\ val = PyNone
       THEN Returned(Deleter(obj, name))
       ELSE Returned(StructInstance([obj.present EXCEPT ![name] = TRUE],
                                    [obj.value EXCEPT ![name] = val]))

\* The property setter of a field: the instance after it, or the error.
Setter(struct, obj, name, val) ==
    LET field == Property(struct, name)
        checked == IF IsComposite(field.validator)
                   THEN ValidateTypeOnly(field.validator, val)
                   ELSE ValidateValue(field.validator, val)
    IN IF field.validator.kind = "Nullable" /\ val = PyNone
       THEN Returned(Deleter(obj, name))
       ELSE IF ~checked.ok THEN checked
       ELSE Returned(StructInstance([obj.present EXCEPT ![name] = TRUE],
                                    [obj.value EXCEPT ![name] = checked.value]))

\* The first failure of a list of results, else the list of their values.
AllReturned(results) ==
    IF \E i \in 1..Len(results) : ~results[i].ok
    THEN ValidationError
    ELSE Returned(PyList([i \in 1..Len(results) |-> results[i].value]))

\* The JSON primitive of a native primitive.
NaturalJson(x) ==
    IF x.py = "int" THEN Returned(JNumber(x.n))
    ELSE IF x.py = "bool" THEN Returned(JBool(x.b))
    ELSE IF x.py = "str" THEN Returned(JString(x.s))
    ELSE IF x.py = "float" THEN Returned(JFloat(x.tenths))
    ELSE IF x.py = "None" THEN Returned(JNull)
    ELSE TypeError

\* Revalidate that takes the list as it is.
Revalidate_skipped(validator, x) ==
    IF x.py = "list" THEN Returned(x) ELSE ValidationError

\* The validation json_encode runs on a list before it encodes the items.
Revalidate(validator, x) == ValidateValue(validator, x)

\* InOrder that reverses the items.
InOrder_reversed(items) == [i \in 1..Len(items) |-> items[Len(items) + 1 - i]]

\* The order in which the items of a list reach the JSON array.
InOrder(items) == items

\* The first failure of a list of encodings, else the JSON array of them.
ArrayOf(results) ==
    IF \E i \in 1..Len(results) : ~results[i].ok
    THEN results[CHOOSE i \in 1..Len(results) :
                     ~results[i].ok /\ \A k \in 1..(i - 1) : results[k].ok]
    ELSE Returned(JArray([i \in 1..Len(results) |-> results[i].value]))

\* json_encode(validator, x)
RECURSIVE EncodeValue(_, _)
EncodeValue(validator, x) ==
    IF validator.kind = "Nullable"
    THEN IF x = PyNone THEN Returned(JNull)
         ELSE EncodeValue(validator.arg[1], x)
    ELSE IF validator.kind = "List"
    THEN LET valid == Revalidate(validator, x)
         IN IF ~valid.ok THEN ValidationError
            ELSE ArrayOf([i \in 1..Len(x.items) |->
                             EncodeValue(validator.arg[1], InOrder(x.items)[i])])
    ELSE IF validator.kind \in IntegerKinds
    THEN IF x.py = "bool" THEN Returned(JNumber(IntOf(x))) ELSE NaturalJson(x)
    ELSE IF validator.kind \in {"String", "Boolean"}
    THEN NaturalJson(x)
    ELSE IF validator.kind = "Struct"
    THEN IF x.py # "struct" THEN ValidationError
         ELSE LET fields == _fields_(validator.arg[1])
                  got == [i \in 1..Len(fields) |->
                             Getter(validator.arg[1], x, fields[i][1])]
                  results == [i \in 1..Len(fields) |->
                                 IF got[i].ok
                                 THEN EncodeValue(fields[i][2], got[i].value)
                                 ELSE ValidationError]
              IN IF \E i \in 1..Len(results) : ~results[i].ok
                 THEN ValidationError
                 ELSE Returned(JObject([i \in 1..Len(fields) |-> fields[i][1]],
                                       [i \in 1..Len(fields) |-> results[i].value]))
    ELSE IF validator.kind = "Union"
    THEN LET tagmap == TagMap(validator.arg[1])
         IN IF x.py # "union" THEN ValidationError
            ELSE IF x.tag \notin DOMAIN tagmap THEN ValidationError
            ELSE IF tagmap[x.tag].kind \in {"Symbol", "Any"}
            THEN Returned(JString(x.tag))
            ELSE LET encoded == EncodeValue(tagmap[x.tag], x.value)
                 IN IF encoded.ok
                    THEN Returned(JObject(<<x.tag>>, <<encoded.value>>))
                    ELSE encoded
    ELSE ValidationError

\* The validator _fields_ gives a field name.
FieldValidator(struct, name) ==
    LET fields == _fields_(struct)
    IN fields[CHOOSE i \in 1..Len(fields) :
                  /\ fields[i][1] = name
                  /\ \A k \in (i + 1)..Len(fields) : fields[k][1] # name][2]

\* A new instance of a struct class, no field set.
NewInstance(struct) ==
    StructInstance([n \in _field_names_(struct) |-> FALSE],
                   [n \in _field_names_(struct) |-> PyNone])

\* Whether a field may be left unset by a decoded object.
Optional(struct, name) ==
    \/ Property(struct, name).validator.kind = "Nullable"
    \/ Property(struct, name).has_default

RECURSIVE DecodeUnion(_, _, _)
RECURSIVE DecodeValue(_, _, _)
RECURSIVE DecodeFields(_, _, _, _, _)

\* json_decode(validator, j, strict)
DecodeValue(validator, j, strict) ==
    IF validator.kind = "Nullable"
    THEN IF j.json = "null" THEN Returned(PyNone)
         ELSE DecodeValue(validator.arg[1], j, strict)
    ELSE IF validator.kind = "List"
    THEN IF j.json # "array" \/ ~CountAllowed(validator, Len(j.items))
         THEN ValidationError
         ELSE AllReturned([i \in 1..Len(j.items) |->
                              DecodeValue(validator.arg[1], j.items[i], strict)])
    ELSE IF validator.kind \in IntegerKinds
    THEN IF j.json = "number" THEN ValidateValue(validator, PyInt(j.n))
         ELSE ValidationError
    ELSE IF validator.kind = "String"
    THEN IF j.json = "string" THEN Returned(PyStr(j.s)) ELSE ValidationError
    ELSE IF validator.kind = "Boolean"
    THEN IF j.json = "boolean" THEN Returned(PyBool(j.b)) ELSE ValidationError
    ELSE IF validator.kind = "Struct"
    THEN IF j.json # "object" THEN ValidationError
         ELSE LET struct == validator.arg[1]
                  obj == DecodeFields(struct, Returned(NewInstance(struct)), j, 1, strict)
              IN IF ~obj.ok THEN ValidationError
                 ELSE IF \E n \in _field_names_(struct) :
                             ~obj.value.present[n] /\ ~Optional(struct, n)
                 THEN ValidationError
                 ELSE obj
    ELSE IF validator.kind = "Union"
    THEN DecodeUnion(validator.arg[1], j, strict)
    ELSE ValidationError

\* The keys of a JSON object from the i-th on, assigned to a struct instance.
DecodeFields(struct, obj, j, i, strict) ==
    IF ~obj.ok \/ i > Len(j.keys) THEN obj
    ELSE IF j.keys[i] \notin _field_names_(struct)
    THEN IF strict THEN ValidationError
         ELSE DecodeFields(struct, obj, j, i + 1, strict)
    ELSE LET decoded == DecodeValue(FieldValidator(struct, j.keys[i]), j.values[i], strict)
         IN IF ~decoded.ok THEN ValidationError
            ELSE DecodeFields(struct,
                              Setter(struct, obj.value, j.keys[i], decoded.value),
                              j, i + 1, strict)

\* DecodeBareTag in which an unknown tag falls back to the catch-all tag when
\* the decode is not strict.
DecodeBareTag_fallback(tagmap, catch_all, tag, strict) ==
    IF tag \in DOMAIN tagmap /\ tagmap[tag].kind \in {"Symbol", "Any"}
    THEN Returned(UnionInstance(tag, PyNone))
    ELSE IF tag \notin DOMAIN tagmap /\ ~strict /\ catch_all # NoField
    THEN Returned(UnionInstance(catch_all, PyNone))
    ELSE ValidationError

\* The bare-string form of a union: the name of a Symbol or Any tag.
DecodeBareTag(tagmap, catch_all, tag, strict) ==
    IF tag \in DOMAIN tagmap /\ tagmap[tag].kind \in {"Symbol", "Any"}
    THEN Returned(UnionInstance(tag, PyNone))
    ELSE ValidationError

\* json_decode(bv.Union(U), j, strict) for the class U generated for union.
DecodeUnion(union, j, strict) ==
    LET tagmap == TagMap(union)
        catch_all == CatchAll(union)
    IN IF j.json = "string"
       THEN DecodeBareTag(tagmap, catch_all, j.s, strict)
       ELSE IF j.json = "object" /\ Len(j.keys) = 1
       THEN LET tag == j.keys[1]
            IN IF tag \in DOMAIN tagmap
               THEN LET decoded == DecodeValue(tagmap[tag], j.values[1], strict)
                    IN IF decoded.ok
                       THEN Returned(UnionInstance(tag, decoded.value))
                       ELSE ValidationError
               ELSE IF ~strict /\ catch_all # NoField
               THEN Returned(UnionInstance(catch_all, PyNone))
               ELSE ValidationError
       ELSE ValidationError

\* The unions of the modelled schemas: own fields taken, in order, from four
\* variants, any own field or none as the catch-all, extending nothing or
\* one of three unions.
VariantPool ==
    <<Field("a", Int64), Field("b", Symbol),
      Field("e", Nullable(Int64)), Field("d", List(Int64))>>

FieldLists ==
    {SelectSeq(VariantPool, LAMBDA f : f.name \in names) :
        names \in SUBSET {"a", "b", "e", "d"}}

UnionsOver(parents) ==
    {UnionType(fields, catch_all, subtype) :
        fields \in FieldLists,
        catch_all \in {NoField, "a", "b", "e", "d"},
        subtype \in parents}

BaseUnions ==
    {UnionType(<<Field("b", Symbol)>>, "b", <<>>),
     UnionType(<<Field("a", String), Field("y", Symbol)>>, NoField, <<>>),
     UnionType(<<Field("y", Int64)>>, "y", <<>>)}

UnionTypes ==
    {u \in UnionsOver({<<>>} \cup {<<b>> : b \in BaseUnions}) :
        u.catch_all_field \in {NoField} \cup {u.fields[i].name : i \in 1..Len(u.fields)}}

\* The JSON documents decoded.
Payloads == {JNumber(64), JString("test"), JNull}

JsonInputs ==
    {JObject(<<k>>, <<v>>) : k \in {"a", "b", "y", "z"}, v \in Payloads}
    \cup {JString("b"), JString("z"), JNumber(64), JNull,
          JArray(<<JNumber(1), JNumber(2)>>),
          JObject(<<>>, <<>>),
          JObject(<<"z", "b">>, <<JString("test"), JNull>>)}

NoRequest == [json |-> JNull, strict |-> TRUE, made |-> FALSE]
NoResponse == [ok |-> FALSE, error |-> "none"]

\* ------------------------------------------------- the runtime's schema
\* A data type of the schema as the generator reads it: its name, whether it
\* is nullable, and for a list its item type and item counts, for an integer
\* its min_value and max_value, for a struct or union its definition.
DataType(name, nullable, args) == [name |-> name, nullable |-> nullable, args |-> args]

\* Nullable whose check of the inner validator is left out.
ConstructNullable_unchecked(inner) == Returned(Nullable(inner))

\* bv.Nullable(inner)
ConstructNullable(inner) ==
    IF inner.kind = "Nullable" THEN AssertionError ELSE Returned(Nullable(inner))

\* ConstructInteger that takes any integral min_value.
ConstructInteger_anyfloor(kind, min_value, max_value) ==
    IF min_value # PyNone /\ min_value.py # "int" THEN AssertionError
    ELSE Returned(Integer(kind,
                          IF min_value = PyNone THEN Floor(kind) ELSE <<min_value.n>>,
                          IF max_value = PyNone THEN Ceiling(kind) ELSE <<max_value.n>>))

\* bv.UInt32(min_value, max_value) and the other integer validators;
\* max_value is None or an integer of the type's range.
ConstructInteger(kind, min_value, max_value) ==
    IF min_value # PyNone /\ min_value.py # "int" THEN AssertionError
    ELSE IF /\ min_value # PyNone
            /\ Floor(kind) # NoLimit
            /\ min_value.n < Floor(kind)[1]
    THEN ValueError
    ELSE Returned(Integer(kind,
                          IF min_value = PyNone THEN Floor(kind) ELSE <<min_value.n>>,
                          IF max_value = PyNone THEN Ceiling(kind) ELSE <<max_value.n>>))

\* The validator that the expression _determine_validator_type returns for
\* a data type constructs.
RECURSIVE _determine_validator_type(_)
_determine_validator_type(dtype) ==
    LET v == IF dtype.name = "List"
             THEN BoundedList(_determine_validator_type(dtype.args[1]),
                              dtype.args[2], dtype.args[3])
             ELSE IF dtype.name \in IntegerKinds
             THEN ConstructInteger(dtype.name, dtype.args[1],
                                   dtype.args[2]).value
             ELSE IF dtype.name = "Struct" THEN Struct(dtype.args[1])
             ELSE IF dtype.name = "Union" THEN Union(dtype.args[1])
             ELSE Validator(dtype.name, <<>>)
    IN IF dtype.nullable THEN Nullable(v) ELSE v

\* The struct and the union of the runtime's schema: S extends S0, and U has
\* a variant of each kind.
S0 == StructType(<<StructField("f", String, FALSE, PyNone)>>, <<>>)
S == StructType(<<StructField("g", Nullable(Int64), FALSE, PyNone),
                  StructField("h", Int64, TRUE, PyInt(5))>>, <<S0>>)
U == UnionType(<<Field("a", Int64), Field("b", Symbol), Field("c", Struct(S)),
                 Field("d", List(Int64)), Field("e", Nullable(Int64))>>,
               NoField, <<>>)

\* The data types of the schema: lists nested up to n deep.
RECURSIVE DataTypes(_)
DataTypes(n) ==
    LET plain == {DataType("String", FALSE, <<>>), DataType("Boolean", FALSE, <<>>),
                  DataType("Int64", FALSE, <<PyNone, PyNone>>),
                  DataType("UInt32", FALSE, <<PyInt(10), PyInt(100)>>),
                  DataType("Struct", FALSE, <<S>>), DataType("Union", FALSE, <<U>>)}
        lists == IF n = 0 THEN {}
                 ELSE {DataType("List", FALSE, <<item, counts[1], counts[2]>>) :
                          item \in DataTypes(n - 1),
                          counts \in {<<NoLimit, NoLimit>>, <<<<1>>, <<MaxItems - 1>>>>}}
    IN {[d EXCEPT !.nullable = nullable] : d \in plain \cup lists, nullable \in BOOLEAN}

\* The native values handed to the runtime.
Scalars ==
    {PyNone, PyBool(TRUE), PyInt(-3), PyInt(1), PyInt(10), PyInt(50), PyInt(100),
     PyInt(101), PyFloat(14), PyFloat(500), PyStr("abc"), PyObject}

RECURSIVE SeqsUpTo(_, _)
SeqsUpTo(items, n) ==
    IF n = 0 THEN {<<>>}
    ELSE SeqsUpTo(items, n - 1)
         \cup {Append(s, x) : s \in {q \in SeqsUpTo(items, n - 1) : Len(q) = n - 1},
                              x \in items}

Lists == {PyList(s) : s \in SeqsUpTo({PyInt(1), PyInt(50), PyStr("abc"), PyNone}, MaxItems)}

\* The instances of S: each field unset, or set to a value its setter took.
Instances ==
    {StructInstance([n \in {"f", "g", "h"} |-> v[n] # PyNone], v) :
        v \in {w \in [{"f", "g", "h"} -> {PyNone, PyStr("abc"), PyInt(50)}] :
                  /\ w["f"] \in {PyNone, PyStr("abc")}
                  /\ w["g"] \in {PyNone, PyInt(50)}
                  /\ w["h"] \in {PyNone, PyInt(50)}}}

\* Instances of U, also with a value that a later mutation or a caller going
\* around the constructor left invalid.
UnionInstances ==
    {UnionInstance(tag, value) :
        tag \in {"a", "b", "c", "d", "e"},
        value \in {PyNone, PyInt(50), PyStr("abc"),
                   PyList(<<>>), PyList(<<PyInt(1), PyInt(50)>>),
                   PyList(<<PyInt(1), PyStr("abc")>>)}
                  \cup {i \in Instances : i.present["g"]}}

\* Lists of instances of S.
InstanceLists == {PyList(<<i>>) : i \in {j \in Instances : j.present["g"] /\ j.present["h"]}}

Values == Scalars \cup Lists \cup Instances \cup UnionInstances \cup InstanceLists

NoCall == [op |-> "none"]

\* ------------------------------------------------------------ the machine
Lexer ==
    [lexdata |-> lexdata, lexpos |-> lexpos, lineno |-> lineno,
     cur_indent |-> cur_indent, tokens_queue |-> tokens_queue,
     last_token |-> last_token, errors |-> errors, out |-> out, pc |-> pc]

Becomes(s) ==
    /\ lexdata' = s.lexdata
    /\ lexpos' = s.lexpos
    /\ lineno' = s.lineno
    /\ cur_indent' = s.cur_indent
    /\ tokens_queue' = s.tokens_queue
    /\ last_token' = s.last_token
    /\ errors' = s.errors
    /\ out' = s.out
    /\ pc' = s.pc
    /\ UNCHANGED <<codec_vars, gen_vars, instance_vars>>

\* input(file_data)
Init ==
    \E source \in Sources(MaxChunks) :
        /\ lexdata = InitLexer(source).lexdata
        /\ lexpos = 0
        /\ lineno = 1
        /\ cur_indent = 0
        /\ tokens_queue = <<>>
        /\ last_token = None
        /\ errors = <<>>
        /\ out = <<>>
        /\ pc = "run"
        /\ data_type = NoType
        /\ request = NoRequest
        /\ response = NoResponse
        /\ namespace = <<>>
        /\ classes = <<>>
        /\ self = NoInstance

Scanning(rule) ==
    /\ pc = "run"
    /\ tokens_queue = <<>>
    /\ NextRule(Lexer) = rule

\* token(), line 49: a pending token is returned.
TokenQueued ==
    /\ pc = "run"
    /\ tokens_queue # <<>>
    /\ Becomes(ReturnQueued(Lexer))

ScanID == Scanning("ID") /\ Becomes(Scan(Lexer))

ScanSTRING == Scanning("STRING") /\ Becomes(Scan(Lexer))

ScanComment == Scanning("comment") /\ Becomes(Scan(Lexer))

ScanNEWLINE == Scanning("NEWLINE") /\ Becomes(Scan(Lexer))

ScanError == Scanning("error") /\ Becomes(Scan(Lexer))

\* The scanner is exhausted: the first time, and every time the caller
\* pulls again after the end marker.
ScanEof ==
    /\ pc \in {"run", "done"}
    /\ tokens_queue = <<>>
    /\ NextRule(Lexer) = "eof"
    /\ lexpos < Len(lexdata) + 2 + MaxExtraCalls
    /\ Becomes(AtEof(Lexer))

Next ==
    \/ TokenQueued
    \/ ScanID
    \/ ScanSTRING
    \/ ScanComment
    \/ ScanNEWLINE
    \/ ScanError
    \/ ScanEof

Spec == Init /\ [][Next]_vars

\* --------------------------------------------------- files with a literal
\* The pieces of the text between two quotes: identifier letters (n and t
\* are the letters the escape loop translates), an indentation step, a
\* newline, a backslash, a quote, a comment start.
LiteralPieces ==
    {<<"a">>, <<"n">>, <<"t">>, Indent4, <<NL>>, <<BSLASH>>, <<QUOTE>>, <<HASH>>}

RECURSIVE Bodies(_)
Bodies(n) ==
    IF n = 0 THEN {<<>>}
    ELSE LET shorter == Bodies(n - 1)
         IN shorter \cup {b \o p : b \in shorter, p \in LiteralPieces}

\* What stands before the opening quote: nothing, or a line and the
\* indentation of a block (the tracked indent is 4 when the literal is met).
LiteralPrefixes == {<<>>, <<"a", NL>> \o Indent4}

LiteralSources ==
    {p \o <<QUOTE>> \o b \o <<QUOTE>> : p \in LiteralPrefixes, b \in Bodies(MaxBody)}

\* input(file_data) for a file that holds a quoted text.
LiteralInit ==
    \E source \in LiteralSources :
        /\ lexdata = InitLexer(source).lexdata
        /\ lexpos = 0
        /\ lineno = 1
        /\ cur_indent = 0
        /\ tokens_queue = <<>>
        /\ last_token = None
        /\ errors = <<>>
        /\ out = <<>>
        /\ pc = "run"
        /\ data_type = NoType
        /\ request = NoRequest
        /\ response = NoResponse
        /\ namespace = <<>>
        /\ classes = <<>>
        /\ self = NoInstance

LiteralSpec == LiteralInit /\ [][Next]_vars

\* A program holds the class generated for one union of its schema.
CodecInit ==
    /\ data_type \in UnionTypes
    /\ request = NoRequest
    /\ response = NoResponse
    /\ lexdata = <<NL>>
    /\ lexpos = 0
    /\ lineno = 1
    /\ cur_indent = 0
    /\ tokens_queue = <<>>
    /\ last_token = None
    /\ errors = <<>>
    /\ out = <<>>
    /\ pc = "run"
    /\ namespace = <<>>
    /\ classes = <<>>
    /\ self = NoInstance

\* json_decode(bv.Union(U), json, strict)
JsonDecode ==
    \E j \in JsonInputs, strict \in BOOLEAN :
        /\ request' = [json |-> j, strict |-> strict, made |-> TRUE]
        /\ response' = DecodeUnion(data_type, j, strict)
        /\ UNCHANGED <<data_type, lexer_vars, gen_vars, instance_vars>>

CodecNext == JsonDecode

CodecSpec == CodecInit /\ [][CodecNext]_vars

\* A program of the runtime holds one validator, built for a data type of
\* the schema or by the constructors, and calls it.
RuntimeInit ==
    /\ data_type \in {_determine_validator_type(d) : d \in DataTypes(MaxNesting)}
    /\ request = NoCall
    /\ response = NoResponse
    /\ lexdata = <<NL>>
    /\ lexpos = 0
    /\ lineno = 1
    /\ cur_indent = 0
    /\ tokens_queue = <<>>
    /\ last_token = None
    /\ errors = <<>>
    /\ out = <<>>
    /\ pc = "run"
    /\ namespace = <<>>
    /\ classes = <<>>
    /\ self = NoInstance

\* The constructor call made, and the validator held after it.
Constructed(call, result) ==
    /\ request' = call
    /\ response' = result
    /\ data_type' = IF result.ok THEN result.value ELSE data_type
    /\ UNCHANGED <<lexer_vars, gen_vars, instance_vars>>

RECURSIVE ListDepth(_)
ListDepth(validator) ==
    IF validator.kind = "Nullable" THEN ListDepth(validator.arg[1])
    ELSE IF validator.kind = "List" THEN 1 + ListDepth(validator.arg[1])
    ELSE 0

\* bv.Nullable(v)
NewNullable ==
    Constructed([inner |-> data_type, op |-> "Nullable"],
                ConstructNullable(data_type))

\* bv.List(v, min_items, max_items)
NewList ==
    /\ ListDepth(data_type) < MaxNesting
    /\ \E counts \in {<<NoLimit, NoLimit>>, <<<<1>>, <<MaxItems - 1>>>>} :
          Constructed([inner |-> data_type, op |-> "List"],
                      Returned(BoundedList(data_type, counts[1], counts[2])))

\* bv.UInt32(min_value, max_value), bv.Int64(min_value, max_value)
NewInteger ==
    \E kind \in IntegerKinds,
       min_value \in {PyNone, PyInt(-3), PyInt(10), PyFloat(13)},
       max_value \in {PyNone, PyInt(100)} :
        Constructed([kind |-> kind, min_value |-> min_value,
                     max_value |-> max_value, op |-> "Integer"],
                    ConstructInteger(kind, min_value, max_value))

\* v.validate(x).  A call leaves the validator as it is, so what it returns
\* does not depend on the calls made before it: the program makes its call
\* on the validator it has just built.
Validate ==
    \E x \in Values :
        /\ request.op \notin {"validate", "encode", "decode"}
        /\ request' = [x |-> x, op |-> "validate"]
        /\ response' = ValidateValue(data_type, x)
        /\ UNCHANGED <<data_type, lexer_vars, gen_vars, instance_vars>>

\* json_encode(v, x)
JsonEncode ==
    \E x \in Values :
        /\ request.op \notin {"validate", "encode", "decode"}
        /\ request' = [x |-> x, op |-> "encode"]
        /\ response' = EncodeValue(data_type, x)
        /\ UNCHANGED <<data_type, lexer_vars, gen_vars, instance_vars>>

\* json_decode(v, json_encode(v, x), strict)
JsonDecodeEncoded ==
    /\ request.op = "encode"
    /\ response.ok
    /\ \E strict \in BOOLEAN :
          /\ request' = [json |-> response.value, x |-> request.x,
                         strict |-> strict, op |-> "decode"]
          /\ response' = DecodeValue(data_type, response.value, strict)
          /\ UNCHANGED <<data_type, lexer_vars, gen_vars, instance_vars>>

RuntimeNext ==
    \/ NewNullable
    \/ NewList
    \/ NewInteger
    \/ Validate
    \/ JsonEncode
    \/ JsonDecodeEncoded

RuntimeSpec == RuntimeInit /\ [][RuntimeNext]_vars

\* ---------------------------------------------------------- the generator
\* The structs of the modelled schemas: up to two own fields, under up to n
\* supertypes, no name twice in a struct and its supertypes.
FieldPool ==
    {StructField("f", String, FALSE, PyNone),
     StructField("g", Nullable(Int64), FALSE, PyNone),
     StructField("h", Int64, TRUE, PyInt(5)),
     StructField("k", Boolean, FALSE, PyNone)}

OwnFieldLists ==
    {<<>>} \cup {<<a>> : a \in FieldPool}
    \cup {pair \in FieldPool \X FieldPool : pair[1] # pair[2]}

RECURSIVE StructTypes(_)
StructTypes(n) ==
    IF n = 0 THEN {StructType(fields, <<>>) : fields \in OwnFieldLists}
    ELSE StructTypes(n - 1)
         \cup {struct \in {StructType(fields, <<parent>>) :
                               parent \in StructTypes(n - 1),
                               fields \in OwnFieldLists} :
                  \A i \in 1..Len(struct.fields) :
                      struct.fields[i].name
                          \notin _field_names_(struct.supertype[1])}

\* is_struct_type(data_type)
is_struct_type(dtype) == "supertype" \in DOMAIN dtype

\* The type a struct or a union extends, <<>> if none.
Extended(dtype) == IF is_struct_type(dtype) THEN dtype.supertype ELSE dtype.subtype

\* namespace.linearize_data_types() for a type and what it extends: a type
\* comes after the type it extends.
RECURSIVE Linearize(_)
Linearize(dtype) ==
    IF Extended(dtype) = <<>> THEN <<dtype>>
    ELSE Append(Linearize(Extended(dtype)[1]), dtype)

\* The class attributes for reflection of a generated struct class and of a
\* generated union class.
StructClass(struct) ==
    [field_names |-> _field_names_(struct), field_list |-> _fields_(struct)]
UnionClass(union) ==
    [tagmap |-> TagMap(union), catch_all |-> CatchAll(union)]

GeneratorInit ==
    /\ \E dtype \in StructTypes(MaxSupertypes) \cup UnionTypes :
          namespace = Linearize(dtype)
    /\ classes = <<>>
    /\ self = NoInstance
    /\ data_type = NoType
    /\ request = NoRequest
    /\ response = NoResponse
    /\ lexdata = <<NL>>
    /\ lexpos = 0
    /\ lineno = 1
    /\ cur_indent = 0
    /\ tokens_queue = <<>>
    /\ last_token = None
    /\ errors = <<>>
    /\ out = <<>>
    /\ pc = "run"

\* The data type the loop of _generate_base_namespace_module is at.
NextDataType == namespace[Len(classes) + 1]

\* _generate_struct_class(data_type)
GenerateStructClass ==
    /\ Len(classes) < Len(namespace)
    /\ is_struct_type(NextDataType)
    /\ classes' = Append(classes, StructClass(NextDataType))
    /\ UNCHANGED <<namespace, lexer_vars, codec_vars, instance_vars>>

\* _generate_union_class(data_type)
GenerateUnionClass ==
    /\ Len(classes) < Len(namespace)
    /\ ~is_struct_type(NextDataType)
    /\ classes' = Append(classes, UnionClass(NextDataType))
    /\ UNCHANGED <<namespace, lexer_vars, codec_vars, instance_vars>>

GeneratorNext ==
    \/ GenerateStructClass
    \/ GenerateUnionClass

GeneratorSpec == GeneratorInit /\ [][GeneratorNext]_vars

\* ------------------------------------------------ generated struct classes
\* The fields of a struct in the order of its constructor's parameters: those
\* of its supertype first.
RECURSIVE all_fields(_)
all_fields(struct) ==
    IF struct.supertype # <<>>
    THEN all_fields(struct.supertype[1]) \o struct.fields
    ELSE struct.fields

\* The position of the parameter called name among the fields.
ParameterIndex(fields, name) ==
    CHOOSE i \in 1..Len(fields) : fields[i].name = name

\* The call super(C, self).__init__(...) written into C.__init__: the values
\* of the arguments named after the supertype's own fields, in that order,
\* are bound by position to the parameters of the supertype's constructor;
\* the parameters left over keep their default None.
SuperArguments(struct, args) ==
    LET super == struct.supertype[1]
        passed == [i \in 1..Len(super.fields) |-> args[super.fields[i].name]]
        parameters == all_fields(super)
    IN [n \in _field_names_(super) |->
           IF ParameterIndex(parameters, n) <= Len(passed)
           THEN passed[ParameterIndex(parameters, n)]
           ELSE PyNone]

\* "initialize each field": _<f>_value = None, _<f>_present = False for the
\* struct's own fields.
RECURSIVE InitializeFields(_, _, _)
InitializeFields(struct, obj, i) ==
    IF i > Len(struct.fields) THEN obj
    ELSE InitializeFields(struct, Deleter(obj, struct.fields[i].name), i + 1)

\* "handle arguments that were set": self.<f> = <f> for the own fields, in
\* order, whose argument is not None; the first setter that raises ends it.
RECURSIVE SetArguments(_, _, _, _)
SetArguments(struct, obj, args, i) ==
    IF i > Len(struct.fields) THEN Returned(obj)
    ELSE LET name == struct.fields[i].name
         IN IF args[name] = PyNone
            THEN SetArguments(struct, obj, args, i + 1)
            ELSE LET set == Setter(struct, obj, name, args[name])
                 IN IF set.ok THEN SetArguments(struct, set.value, args, i + 1)
                    ELSE set

\* The generated __init__ of a struct class, run on the instance obj with
\* the arguments args (parameter name -> value): the instance, or the error.
RECURSIVE Struct__init__(_, _, _)
Struct__init__(struct, obj, args) ==
    LET inherited == IF struct.supertype # <<>>
                     THEN Struct__init__(struct.supertype[1], obj,
                                         SuperArguments(struct, args))
                     ELSE Returned(obj)
    IN IF ~inherited.ok THEN inherited
       ELSE SetArguments(struct, InitializeFields(struct, inherited.value, 1),
                         args, 1)

\* The fields the modelled classes declare: a required one, a nullable one
\* that also declares a default, and one with a default.
InstanceFieldPool ==
    {StructField("f", String, FALSE, PyNone),
     StructField("g", Nullable(Int64), TRUE, PyInt(7)),
     StructField("h", Int64, TRUE, PyInt(5))}

InstanceFieldLists ==
    {<<>>} \cup {<<a>> : a \in InstanceFieldPool}
    \cup {pair \in InstanceFieldPool \X InstanceFieldPool : pair[1] # pair[2]}

\* The struct classes: own fields under up to n supertypes, no name twice.
RECURSIVE StructClasses(_)
StructClasses(n) ==
    IF n = 0 THEN {StructType(fields, <<>>) : fields \in InstanceFieldLists}
    ELSE StructClasses(n - 1)
         \cup {struct \in {StructType(fields, <<parent>>) :
                               parent \in StructClasses(n - 1),
                               fields \in InstanceFieldLists} :
                  \A i \in 1..Len(struct.fields) :
                      struct.fields[i].name
                          \notin _field_names_(struct.supertype[1])}

\* The values a program passes to a constructor or a setter.
FieldValues == {PyNone, PyStr("abc"), PyInt(50), PyInt(1)}

\* A program holds one generated struct class and at most one instance.
StructInit ==
    /\ data_type \in {c \in StructClasses(MaxSupertypes) : all_fields(c) # <<>>}
    /\ request = NoCall
    /\ response = NoResponse
    /\ self = NoInstance
    /\ lexdata = <<NL>>
    /\ lexpos = 0
    /\ lineno = 1
    /\ cur_indent = 0
    /\ tokens_queue = <<>>
    /\ last_token = None
    /\ errors = <<>>
    /\ out = <<>>
    /\ pc = "run"
    /\ namespace = <<>>
    /\ classes = <<>>

\* self = C(f=..., g=..., ...)
NewStruct ==
    /\ self = NoInstance
    /\ \E args \in [_field_names_(data_type) -> FieldValues] :
          LET made == Struct__init__(data_type, NewInstance(data_type), args)
          IN /\ request' = [args |-> args, op |-> "init"]
             /\ response' = IF made.ok THEN Returned(PyNone) ELSE made
             /\ self' = IF made.ok THEN made.value ELSE self
    /\ UNCHANGED <<data_type, lexer_vars, gen_vars>>

\* self.<name> = val
SetField ==
    /\ self # NoInstance
    /\ \E name \in _field_names_(data_type), val \in FieldValues :
          LET set == Setter(data_type, self, name, val)
          IN /\ request' = [name |-> name, val |-> val, op |-> "set"]
             /\ response' = IF set.ok THEN Returned(PyNone) ELSE set
             /\ self' = IF set.ok THEN set.value ELSE self
    /\ UNCHANGED <<data_type, lexer_vars, gen_vars>>

\* del self.<name>
DeleteField ==
    /\ self # NoInstance
    /\ \E name \in _field_names_(data_type) :
          /\ request' = [name |-> name, op |-> "del"]
          /\ response' = Returned(PyNone)
          /\ self' = Deleter(self, name)
    /\ UNCHANGED <<data_type, lexer_vars, gen_vars>>

\* self.<name>
GetField ==
    /\ self # NoInstance
    /\ \E name \in _field_names_(data_type) :
          /\ request' = [name |-> name, op |-> "get"]
          /\ response' = Getter(data_type, self, name)
          /\ self' = self
    /\ UNCHANGED <<data_type, lexer_vars, gen_vars>>

StructNext ==
    \/ NewStruct
    \/ SetField
    \/ DeleteField
    \/ GetField

StructSpec == StructInit /\ [][StructNext]_vars

\* ------------------------------------------------- generated union classes
\* Union__init__ that stores the value without validating it.
Union__init___unvalidated(union, tag, value) ==
    IF tag \notin DOMAIN TagMap(union) THEN AssertionError
    ELSE IF TagMap(union)[tag].kind = "Symbol" /\ value # PyNone
    THEN AssertionError
    ELSE Returned(UnionInstance(tag, value))

\* The generated __init__(self, tag, value=None) of a union class: the
\* instance, or the error.
Union__init__(union, tag, value) ==
    IF tag \notin DOMAIN TagMap(union) THEN AssertionError
    ELSE IF TagMap(union)[tag].kind = "Symbol"
    THEN IF value = PyNone THEN Returned(UnionInstance(tag, value))
         ELSE AssertionError
    ELSE IF ValidateValue(TagMap(union)[tag], value).ok
    THEN Returned(UnionInstance(tag, value))
    ELSE ValidationError

\* is_<name>()
is_(obj, name) == Returned(PyBool(obj.tag = name))

\* The class, or a class it extends, defines get_<name>: one is written for
\* each own field that is no Symbol.
RECURSIVE HasGetHelper(_, _)
HasGetHelper(union, name) ==
    \/ \E i \in 1..Len(union.fields) :
          union.fields[i].name = name /\ union.fields[i].validator.kind # "Symbol"
    \/ union.subtype # <<>> /\ HasGetHelper(union.subtype[1], name)

\* get_<name>(); Python raises AttributeError too when the class has no such
\* method.
get_(union, obj, name) ==
    IF ~HasGetHelper(union, name) THEN AttributeError
    ELSE IF ~is_(obj, name).value.b THEN AttributeError
    ELSE Returned(obj.value)

\* The union classes in use: a schema declares no tag that a union it
\* extends declares already.
UnionClasses ==
    {u \in UnionTypes :
        /\ u.fields # <<>> \/ u.subtype # <<>>
        /\ u.subtype # <<>>
              => \A i \in 1..Len(u.fields) :
                     u.fields[i].name \notin DOMAIN TagMap(u.subtype[1])}

\* The tags and values a program passes to the constructor.
TagArguments == {"a", "b", "d", "e", "y", "z"}
VariantValues ==
    {PyNone, PyInt(50), PyStr("abc"), PyList(<<PyInt(1)>>), PyList(<<PyStr("abc")>>)}

\* A program holds one generated union class and at most one instance.
UnionInit ==
    /\ data_type \in UnionClasses
    /\ request = NoCall
    /\ response = NoResponse
    /\ self = NoInstance
    /\ lexdata = <<NL>>
    /\ lexpos = 0
    /\ lineno = 1
    /\ cur_indent = 0
    /\ tokens_queue = <<>>
    /\ last_token = None
    /\ errors = <<>>
    /\ out = <<>>
    /\ pc = "run"
    /\ namespace = <<>>
    /\ classes = <<>>

\* self = U(tag, value)
NewUnion ==
    /\ self = NoInstance
    /\ \E tag \in TagArguments, value \in VariantValues :
          LET made == Union__init__(data_type, tag, value)
          IN /\ request' = [value |-> value, tag |-> tag, op |-> "init"]
             /\ response' = IF made.ok THEN Returned(PyNone) ELSE made
             /\ self' = IF made.ok THEN made.value ELSE self
    /\ UNCHANGED <<data_type, lexer_vars, gen_vars>>

\* self.is_<name>()
IsTag ==
    /\ self # NoInstance
    /\ \E name \in DOMAIN TagMap(data_type) :
          /\ request' = [name |-> name, op |-> "is"]
          /\ response' = is_(self, name)
    /\ UNCHANGED <<data_type, lexer_vars, gen_vars, instance_vars>>

\* self.get_<name>()
GetTag ==
    /\ self # NoInstance
    /\ \E name \in DOMAIN TagMap(data_type) :
          /\ request' = [name |-> name, op |-> "get"]
          /\ response' = get_(data_type, self, name)
    /\ UNCHANGED <<data_type, lexer_vars, gen_vars, instance_vars>>

UnionNext ==
    \/ NewUnion
    \/ IsTag
    \/ GetTag

UnionSpec == UnionInit /\ [][UnionNext]_vars

\* ================================================================ claims
\* The kinds of a sequence of tokens.
Kinds(toks) == [i \in 1..Len(toks) |-> toks[i].type]

\* n tokens of one kind.
Repeat(kind, n) == [i \in 1..n |-> kind]

Abs(n) == IF n < 0 THEN -n ELSE n

\* A maximal run of newline characters starts at position b of the input.
RunStartsAt(b) ==
    /\ b < Len(lexdata)
    /\ At(lexdata, b) = NL
    /\ (b = 0 \/ At(lexdata, b - 1) # NL)

\* The position after the run that starts at b.
RunEnd(b) == SkipWhile(lexdata, b, {NL})

\* The number of blanks the line that starts at position p begins with.
BlanksAt(p) == SkipWhile(lexdata, p, {SP, TAB}) - p

\* The position of the last character before p that is no space, -1 if none.
RECURSIVE LastNonSpaceBefore(_)
LastNonSpaceBefore(p) ==
    IF p = 0 THEN -1
    ELSE IF At(lexdata, p - 1) # SP THEN p - 1
    ELSE LastNonSpaceBefore(p - 1)

\* A comment starting at p has something other than spaces before it on its
\* line.
FollowsText(p) ==
    LET q == LastNonSpaceBefore(p)
    IN q >= 0 /\ At(lexdata, q) # NL

\* The kinds of the tokens a step produces (returned or left pending).
ProducedKinds ==
    LET before == Len(out) + Len(tokens_queue)
        after == Kinds(out' \o tokens_queue')
    IN Slice(after, before + 1, Len(after))

\* What C1 promises of the run that starts at b.
RunYieldsNewlineAndDents(b) ==
    LET indent == BlanksAt(RunEnd(b))
        d == (indent - cur_indent) \div 4
    IN /\ ProducedKinds =
            <<"NEWLINE">> \o Repeat(IF d > 0 THEN "INDENT" ELSE "DEDENT", Abs(d))
       /\ cur_indent' = indent

\* A step moves the scanner over the run that starts at b, more input
\* follows the run, and the step does not end in the indentation error.
ScansRun(b) ==
    /\ RunStartsAt(b)
    /\ RunEnd(b) < Len(lexdata)
    /\ pc = "run"
    /\ lexpos <= b
    /\ lexpos' >= RunEnd(b)
    /\ pc' # "raised"

RuleEndsWithRun(b) ==
    LET p == SkipIgnored(lexdata, lexpos)
    IN \/ p = b
       \/ /\ p < b
          /\ At(lexdata, p) = HASH
          /\ Find(lexdata, p, NL) = b
          /\ FollowsText(p)

Source == Slice(lexdata, 1, Len(lexdata) - 1)

\* The set of characters of a text.
CharsOf(text) == {text[i] : i \in 1..Len(text)}

\* Position p starts a line of the file.
LineStartsAt(p) == p < Len(Source) /\ (p = 0 \/ At(lexdata, p - 1) = NL)

\* The line that starts at p begins, after its blanks, with an identifier:
\* it carries a token.
LineCarriesToken(p) ==
    LET q == SkipWhile(lexdata, p, {SP, TAB})
    IN q < Len(lexdata) /\ At(lexdata, q) \in Letters

\* C2 as claimed: a file with a token-carrying line (the first line and a
\* line after a full-line comment included) whose leading-space count is no
\* multiple of 4 never reaches the end marker.  (Files with string literals
\* are left out: their lines need not start a token.)
C2_BadIndentNeverEnds ==
    (pc = "done" /\ QUOTE \notin CharsOf(lexdata))
        => \A p \in 0..(Len(lexdata) - 1) :
               (LineStartsAt(p) /\ LineCarriesToken(p)) => BlanksAt(p) % 4 = 0

\* The text split at its newlines ("a\n" has the lines "a" and "").
RECURSIVE SplitAtNL(_)
SplitAtNL(text) ==
    LET n == FirstNL(text, 1)
    IN IF n = 0 THEN <<text>>
       ELSE <<Slice(text, 1, n - 1)>> \o SplitAtNL(Slice(text, n + 1, Len(text)))

\* Only spaces or tabs precede a '#' on the line.
IsCommentLine(line) ==
    LET k == LeadingWhitespace(line)
    IN k < Len(line) /\ line[k + 1] = HASH

\* The file with every full-line comment line deleted.
DeleteCommentLines(text) ==
    JoinLines(SelectSeq(SplitAtNL(text), LAMBDA line : ~IsCommentLine(line)))

\* C3 as claimed: the token kinds of a file are those of the file with its
\* full-line comment lines deleted.  (Stated for files that start with an
\* identifier and have no string literal: a '#' that starts a line inside a
\* literal is no comment.)
C3_CommentLinesInvisible ==
    (pc = "done" /\ QUOTE \notin CharsOf(lexdata) /\ Head(lexdata) \in Letters)
        => LET r == Tokenize(InitLexer(DeleteCommentLines(Source)))
           IN r.pc = "done" /\ Kinds(r.out) = Kinds(out)

\* The scanned text from pos on, with the text of every comment that follows
\* text on its line removed (its newlines stay).
RECURSIVE StripTrailingComments(_, _)
StripTrailingComments(data, pos) ==
    IF pos >= Len(data) THEN <<>>
    ELSE IF At(data, pos) \in t_ignore
    THEN <<At(data, pos)>> \o StripTrailingComments(data, pos + 1)
    ELSE LET m == Match(data, pos)
         IN IF m.rule = "error"
            THEN <<At(data, pos)>> \o StripTrailingComments(data, pos + 1)
            ELSE IF m.rule = "comment" /\ ~IsFullLineComment(data, pos - 1)
            THEN Sub(data, Find(data, pos, NL), m.end)
                 \o StripTrailingComments(data, m.end)
            ELSE Sub(data, pos, m.end) \o StripTrailingComments(data, m.end)

\* The file without the text of its trailing comments.
SourceWithoutTrailingComments ==
    LET stripped == StripTrailingComments(lexdata, 0)
    IN Slice(stripped, 1, Len(stripped) - 1)

\* C4: a comment after code on its line gives no token of its own, and a
\* file with such comments yields the token kinds, NEWLINE and INDENT/DEDENT
\* included, and the outcome (end marker or indentation error) of the file
\* without the comments' text.
C4_TrailingCommentKeepsStructure ==
    (pc \in {"done", "raised"} /\ SourceWithoutTrailingComments # Source)
        => LET r == Tokenize(InitLexer(SourceWithoutTrailingComments))
           IN r.pc = pc /\ Kinds(r.out) = Kinds(out)

\* C4's case: the newlines of a comment written right after an identifier
\* have produced a NEWLINE and an INDENT that is still pending.
C4_Witness ==
    /\ pc = "run"
    /\ last_token.type = "NEWLINE"
    /\ Kinds(tokens_queue) = <<"INDENT">>
    /\ last_token.lexpos >= 2
    /\ At(lexdata, last_token.lexpos - 1) = HASH
    /\ At(lexdata, last_token.lexpos - 2) \in Letters

\* The kind of the last token returned, "None" before the first.
LastKind == IF out = <<>> THEN "None" ELSE out[Len(out)].type

\* The scanner is exhausted and nothing is pending.
Exhausted ==
    /\ pc = "run"
    /\ tokens_queue = <<>>
    /\ SkipIgnored(lexdata, lexpos) >= Len(lexdata)

\* C5: when the scanner is exhausted with a tracked indent of 4n > 0,
\* token() produces a NEWLINE only if the last token returned is no NEWLINE,
\* then n DEDENT tokens, and sets the tracked indent to 0 without returning
\* the end marker; with a tracked indent of 0 it produces nothing and
\* returns the end marker.  The end marker is returned only with an empty
\* queue and a tracked indent of 0.
C5_EofClosesBlocks ==
    /\ [][Exhausted =>
            IF cur_indent > 0
            THEN /\ ProducedKinds =
                      (IF LastKind # "NEWLINE" THEN <<"NEWLINE">> ELSE <<>>)
                      \o Repeat("DEDENT", cur_indent \div 4)
                 /\ cur_indent' = 0
                 /\ pc' = "run"
            ELSE /\ ProducedKinds = <<>>
                 /\ pc' = "done"]_vars
    /\ [][(pc = "run" /\ pc' = "done")
            => (tokens_queue = <<>> /\ cur_indent = 0 /\ out' = out)]_vars

\* C5's case: the input ended inside two open blocks right after an INDENT,
\* and a NEWLINE and both DEDENTs were returned before the end marker.
C5_Witness ==
    /\ pc = "done"
    /\ Len(out) >= 4
    /\ Slice(Kinds(out), Len(out) - 3, Len(out))
           = <<"INDENT", "NEWLINE", "DEDENT", "DEDENT">>

Dents == {"INDENT", "DEDENT"}

\* C6: every INDENT or DEDENT returned follows a NEWLINE or another token of
\* its own kind (the DEDENTs of the end of input too), and a pending token
\* is returned, first in first out, before the scanner moves.
C6_DentsFollowNewline ==
    /\ [](\A i \in 1..Len(out) :
            out[i].type \in Dents
                => i > 1 /\ out[i - 1].type \in {"NEWLINE", out[i].type})
    /\ [][tokens_queue # <<>>
            => /\ out' = Append(out, Head(tokens_queue))
               /\ tokens_queue' = Tail(tokens_queue)
               /\ lexpos' = lexpos]_vars

\* C6's case: a run of two INDENTs after a NEWLINE, and the run of DEDENTs
\* of the end of input.
C6_Witness ==
    /\ pc = "done"
    /\ \E i \in 1..Len(out) :
          /\ i + 2 <= Len(out)
          /\ Kinds(out)[i] = "NEWLINE"
          /\ Kinds(out)[i + 1] = "INDENT"
          /\ Kinds(out)[i + 2] = "INDENT"
    /\ LastKind = "DEDENT"

\* C7: the line numbers of the tokens returned never decrease.
C7_LinesNonDecreasing ==
    \A i \in 1..Len(out) : i > 1 => out[i - 1].lineno <= out[i].lineno

\* C7's case: a string literal over two lines inside a block, then the
\* NEWLINE and the DEDENT of the end of input.
C7_Witness ==
    /\ pc = "done"
    /\ LastKind = "DEDENT"
    /\ \E i \in 1..Len(out) :
          /\ i < Len(out)
          /\ out[i].type = "STRING"
          /\ out[i + 1].lineno > out[i].lineno

\* The unrecognized characters of the scanned text from pos on, in order:
\* the characters at which the scanner finds neither an ignored character
\* nor a match.
RECURSIVE Unrecognized(_, _)
Unrecognized(data, pos) ==
    IF pos >= Len(data) THEN <<>>
    ELSE IF At(data, pos) \in t_ignore THEN Unrecognized(data, pos + 1)
    ELSE LET m == Match(data, pos)
         IN IF m.rule = "error"
            THEN <<At(data, pos)>> \o Unrecognized(data, pos + 1)
            ELSE Unrecognized(data, m.end)

\* C8: at an unrecognized character the lexer appends (character, line) to
\* the error list, moves on by one character, returns no token, leaves the
\* tracked indent and the queue alone and goes on; the error list only
\* grows at its end, and at the end marker it holds the unrecognized
\* characters of the input in order.
C8_BadCharsAreCollected ==
    /\ [][(pc = "run" /\ tokens_queue = <<>> /\ NextRule(Lexer) = "error")
            => LET p == SkipIgnored(lexdata, lexpos)
               IN /\ errors' = Append(errors, <<At(lexdata, p), lineno>>)
                  /\ lexpos' = p + 1
                  /\ out' = out
                  /\ tokens_queue' = tokens_queue
                  /\ cur_indent' = cur_indent
                  /\ pc' = "run"]_vars
    /\ [][/\ Len(errors') >= Len(errors)
          /\ Slice(errors', 1, Len(errors)) = errors]_vars
    /\ [](pc = "done" =>
            [i \in 1..Len(errors) |-> errors[i][1]] = Unrecognized(lexdata, 0))

\* C8's case: two unrecognized characters on different lines were recorded
\* and the end marker was reached.
C8_Witness ==
    /\ pc = "done"
    /\ Len(errors) = 2
    /\ errors[1][2] < errors[2][2]
    /\ out # <<>>

\* The characters the scanner has not passed yet.
Remaining == Len(lexdata) + 1 - lexpos

\* token() has a branch to take: a pending token, a rule or t_error at the
\* next character, or the end of the input.
CallPossible ==
    \/ tokens_queue # <<>>
    \/ NextRule(Lexer) \in {"ID", "STRING", "comment", "NEWLINE", "error"}
    \/ NextRule(Lexer) = "eof" /\ lexpos <= Len(lexdata) + 1

\* C9: the pull loop ends, in the indentation error or in the end marker:
\* while it runs a call is always possible, and every step lowers the pair
\* (characters not yet passed, pending tokens), which cannot fall for ever.
\* When the end marker has been returned the queue is empty and the tracked
\* indent is 0, and every later call returns the end marker again and no
\* token.
C9_PullingTerminates ==
    /\ [](pc = "run" => (Remaining >= 0 /\ CallPossible))
    /\ [][pc = "run" =>
            \/ Remaining' < Remaining
            \/ Remaining' = Remaining /\ Len(tokens_queue') < Len(tokens_queue)]_vars
    /\ [](pc = "done" =>
            /\ tokens_queue = <<>>
            /\ cur_indent = 0
            /\ last_token = None)
    /\ [][pc = "done" => (pc' = "done" /\ out' = out /\ errors' = errors)]_vars

\* C9's case: the end marker was returned again after a stream in which
\* blocks had been opened and closed.
C9_Witness ==
    /\ pc = "done"
    /\ lexpos > Len(lexdata) + 2
    /\ LastKind = "DEDENT"

\* The tags of a union of the schema: its fields' names and those of the
\* unions it extends.
RECURSIVE TagsOf(_)
TagsOf(union) ==
    {union.fields[i].name : i \in 1..Len(union.fields)}
    \cup (IF union.subtype = <<>> THEN {} ELSE TagsOf(union.subtype[1]))

\* The catch-all tag the schema configures for a union: its own catch-all
\* field, else that of the union it extends.
RECURSIVE ConfiguredCatchAll(_)
ConfiguredCatchAll(union) ==
    IF union.catch_all_field # NoField THEN union.catch_all_field
    ELSE IF union.subtype = <<>> THEN NoField
    ELSE ConfiguredCatchAll(union.subtype[1])

\* The last call decoded a single-key object whose key is no tag.
DecodedUnknownKey ==
    /\ request.made
    /\ request.json.json = "object"
    /\ Len(request.json.keys) = 1
    /\ request.json.keys[1] \notin TagsOf(data_type)

\* C10: decoding a single-key object whose key is no tag of the union fails
\* with a ValidationError when strict; when not strict it gives the instance
\* of the catch-all tag, without a value, if a catch-all tag is configured,
\* and fails if none is.
C10_UnknownKeyDecode ==
    DecodedUnknownKey =>
        IF request.strict \/ ConfiguredCatchAll(data_type) = NoField
        THEN response = ValidationError
        ELSE response = Returned(UnionInstance(ConfiguredCatchAll(data_type), PyNone))

\* C10's case: {"z": "test"} was decoded, not strict, by a union whose
\* catch-all tag is b, and the b instance came back.
C10_Witness ==
    /\ request.made
    /\ ~request.strict
    /\ request.json = JObject(<<"z">>, <<JString("test")>>)
    /\ data_type.catch_all_field = "b"
    /\ response = Returned(UnionInstance("b", PyNone))

\* --------------------------------------------------------------- C11
\* C11: decoding a bare JSON string that is not a tag of the union fails in
\* strict and in non-strict mode, whether or not the union has a catch-all
\* tag.
C11_UnknownBareTagFails ==
    (request.made /\ request.json.json = "string"
        /\ request.json.s \notin TagsOf(data_type))
        => ~response.ok

\* C11's case: a non-strict decode of an unknown bare string by a union
\* that has a catch-all tag has failed.
C11_Witness ==
    /\ request.made
    /\ ~request.strict
    /\ request.json = JString("z")
    /\ ConfiguredCatchAll(data_type) # NoField
    /\ ~response.ok

\* --------------------------------------------------------------- C12
\* Whether the validator accepts a value.
Accepts(validator, x) == ValidateValue(validator, x).ok

\* Whether a value is valid all the way down: every list item, every field
\* that is set and every union value is valid for its validator, and every
\* field that is not set is nullable or has a default.
RECURSIVE DeepValid(_, _)
DeepValid(validator, x) ==
    IF validator.kind = "Nullable"
    THEN x = PyNone \/ DeepValid(validator.arg[1], x)
    ELSE IF validator.kind = "List"
    THEN /\ Accepts(validator, x)
         /\ \A i \in 1..Len(x.items) : DeepValid(validator.arg[1], x.items[i])
    ELSE IF validator.kind = "Struct"
    THEN /\ x.py = "struct"
         /\ \A n \in _field_names_(validator.arg[1]) :
               IF x.present[n]
               THEN DeepValid(FieldValidator(validator.arg[1], n), x.value[n])
               ELSE Optional(validator.arg[1], n)
    ELSE IF validator.kind = "Union"
    THEN /\ x.py = "union"
         /\ x.tag \in DOMAIN TagMap(validator.arg[1])
         /\ IF TagMap(validator.arg[1])[x.tag].kind \in {"Symbol", "Any"}
            THEN x.value = PyNone
            ELSE DeepValid(TagMap(validator.arg[1])[x.tag], x.value)
    ELSE Accepts(validator, x)

\* What a program can read from a value: the items of a list, what the
\* getter of each field of a struct gives, the tag and the value of a union.
RECURSIVE Observed(_, _)
Observed(validator, x) ==
    IF validator.kind = "Nullable"
    THEN IF x = PyNone THEN x ELSE Observed(validator.arg[1], x)
    ELSE IF validator.kind = "List" /\ x.py = "list"
    THEN PyList([i \in 1..Len(x.items) |-> Observed(validator.arg[1], x.items[i])])
    ELSE IF validator.kind = "Struct" /\ x.py = "struct"
    THEN [n \in _field_names_(validator.arg[1]) |->
             LET got == Getter(validator.arg[1], x, n)
             IN IF got.ok
                THEN Returned(Observed(FieldValidator(validator.arg[1], n), got.value))
                ELSE got]
    ELSE IF /\ validator.kind = "Union"
            /\ x.py = "union"
            /\ x.tag \in DOMAIN TagMap(validator.arg[1])
    THEN UnionInstance(x.tag, Observed(TagMap(validator.arg[1])[x.tag], x.value))
    ELSE x

\* The last call decoded what json_encode gave for the value.
RoundTripDone ==
    /\ request.op = "decode"
    /\ response.ok
    /\ Observed(data_type, response.value) = Observed(data_type, request.x)

RECURSIVE NoNestedNullable(_)
NoNestedNullable(validator) ==
    IF validator.kind = "Nullable"
    THEN validator.arg[1].kind # "Nullable" /\ NoNestedNullable(validator.arg[1])
    ELSE IF validator.kind = "List" THEN NoNestedNullable(validator.arg[1])
    ELSE IF validator.kind = "Struct"
    THEN \A i \in 1..Len(_fields_(validator.arg[1])) :
             NoNestedNullable(_fields_(validator.arg[1])[i][2])
    ELSE IF validator.kind = "Union"
    THEN \A tag \in DOMAIN TagMap(validator.arg[1]) :
             NoNestedNullable(TagMap(validator.arg[1])[tag])
    ELSE TRUE

\* C13: constructing a Nullable over a Nullable fails, whatever that one
\* wraps, so no validator held has a Nullable directly inside a Nullable;
\* Nullable.validate accepts None and hands any other value to the inner
\* validator.
C13_NullableNotNested ==
    /\ (request.op = "Nullable" /\ request.inner.kind = "Nullable")
           => (~response.ok /\ data_type = request.inner)
    /\ NoNestedNullable(data_type)
    /\ (request.op = "validate" /\ data_type.kind = "Nullable")
           => response = IF request.x = PyNone THEN Returned(PyNone)
                         ELSE ValidateValue(data_type.arg[1], request.x)

\* C13's case: the construction of a Nullable over a Nullable of a list has
\* failed.
C13_Witness ==
    /\ request.op = "Nullable"
    /\ request.inner.kind = "Nullable"
    /\ request.inner.arg[1].kind = "List"
    /\ ~response.ok

\* --------------------------------------------------------------- C14
\* The last call encoded a list under a List validator.
EncodedList ==
    /\ request.op = "encode"
    /\ data_type.kind = "List"
    /\ request.x.py = "list"

ItemRejected ==
    \/ ~CountAllowed(data_type, Len(request.x.items))
    \/ \E i \in 1..Len(request.x.items) :
           ~Accepts(data_type.arg[1], request.x.items[i])

\* The response is the JSON array of the encoded items, in order.
IsArrayOfEncodedItems ==
    /\ response.ok
    /\ response.value.json = "array"
    /\ Len(response.value.items) = Len(request.x.items)
    /\ \A i \in 1..Len(request.x.items) :
           Returned(response.value.items[i])
               = EncodeValue(data_type.arg[1], request.x.items[i])

\* C14: encoding a list under a List validator fails with a ValidationError
\* if the item count or an item is rejected by the validator, and otherwise
\* gives the JSON array of the encoded items in order.
C14_ListEncode ==
    EncodedList =>
        IF ItemRejected THEN response = ValidationError ELSE IsArrayOfEncodedItems

\* C14 amended: ... and otherwise gives the JSON array of the encoded items
\* in order if every item can be encoded, and fails if one cannot.
C14_ListEncodeOfEncodable ==
    EncodedList =>
        IF ItemRejected THEN response = ValidationError
        ELSE IF \A i \in 1..Len(request.x.items) :
                    EncodeValue(data_type.arg[1], request.x.items[i]).ok
        THEN IsArrayOfEncodedItems
        ELSE ~response.ok

\* C14's case: a list of integers one of whose items was replaced by a
\* string was encoded under a List of Int64 and the encoding failed.
C14_Witness ==
    /\ EncodedList
    /\ data_type.arg[1] = _determine_validator_type(DataType("Int64", FALSE, <<PyNone, PyNone>>))
    /\ request.x = PyList(<<PyInt(1), PyStr("abc")>>)
    /\ response = ValidationError

\* --------------------------------------------------------------- C15
\* UInt32(min_value=10, max_value=100)
UInt32From10To100 == Integer("UInt32", <<10>>, <<100>>)

\* C15: UInt32(min_value=10, max_value=100).validate(x) succeeds exactly if
\* x is an integer, no boolean and no float, from 10 to 100; constructing an
\* unsigned validator with a negative min_value, or any integer validator
\* with a min_value that is not integral, fails.
C15_IntegerBounds ==
    /\ (request.op = "validate" /\ data_type = UInt32From10To100)
           => (response.ok <=> (/\ request.x.py = "int"
                                /\ request.x.n >= 10
                                /\ request.x.n <= 100))
    /\ (/\ request.op = "Integer"
        /\ \/ request.min_value.py = "float"
           \/ /\ request.kind = "UInt32"
              /\ request.min_value.py = "int"
              /\ request.min_value.n < 0)
           => ~response.ok

\* C15's case: UInt32(min_value=-3, max_value=100) was refused and the
\* validator held before it is still held.
C15_Witness ==
    /\ request.op = "Integer"
    /\ request.kind = "UInt32"
    /\ request.min_value = PyInt(-3)
    /\ response = ValueError

\* --------------------------------------------------------------- C16
\* The class generated for a data type of the namespace.
ClassOf(dtype) ==
    classes[CHOOSE i \in 1..Len(classes) : namespace[i] = dtype]

\* The (name, validator) pairs of the own fields, in declaration order.
OwnPairs(struct) ==
    [i \in 1..Len(struct.fields) |->
        <<struct.fields[i].name, struct.fields[i].validator>>]

\* C16: the _fields_ of every generated struct class is the _fields_ of the
\* class of its supertype, in order, followed by its own fields in
\* declaration order, and its _field_names_ is the set of the names in its
\* _fields_.
C16_ReflectedFields ==
    \A i \in 1..Len(classes) :
        is_struct_type(namespace[i]) =>
            LET struct == namespace[i]
                inherited == IF struct.supertype = <<>> THEN <<>>
                             ELSE ClassOf(struct.supertype[1]).field_list
            IN /\ classes[i].field_list = inherited \o OwnPairs(struct)
               /\ classes[i].field_names =
                      {classes[i].field_list[k][1] :
                          k \in 1..Len(classes[i].field_list)}

\* C16's case: the class of a struct with a field of its own, under a
\* supertype and a supertype of that with fields of their own, is written.
C16_Witness ==
    /\ Len(classes) = 3
    /\ is_struct_type(namespace[3])
    /\ \A i \in 1..3 : namespace[i].fields # <<>>
    /\ Len(classes[3].field_list) > Len(classes[2].field_list)
    /\ Len(classes[2].field_list) > Len(classes[1].field_list)

\* --------------------------------------------------------------- C17
\* C17: the _tagmap_ of every generated union class that extends a union has
\* the tags of the extended union's class and its own tags, and gives every
\* own tag the validator of the union's own declaration.
C17_OwnTagsWin ==
    \A i \in 1..Len(classes) :
        (~is_struct_type(namespace[i]) /\ namespace[i].subtype # <<>>) =>
            LET union == namespace[i]
                own == DictOf(union.fields)
            IN /\ DOMAIN classes[i].tagmap =
                      DOMAIN ClassOf(union.subtype[1]).tagmap \cup DOMAIN own
               /\ \A tag \in DOMAIN own : classes[i].tagmap[tag] = own[tag]


\* The text between the quotes of the literal the scanner is about to match.
LiteralBody ==
    LET pos == SkipIgnored(lexdata, lexpos)
    IN Sub(lexdata, pos + 1, StringEnd(lexdata, pos + 1) - 1)

\* A line without its leading indentation prefix: a line that starts with
\* indent spaces loses them, any other line stays as it is.
StripPrefix(line, indent) ==
    IF StartsWith(line, Spaces(indent))
    THEN Slice(line, indent + 1, Len(line))
    ELSE line

\* The lines of a text, each without its leading indentation prefix.
StripPrefixes(text, indent) ==
    LET lines == SplitLines(text)
    IN JoinLines([i \in 1..Len(lines) |-> StripPrefix(lines[i], indent)])

\* C18: the value of a STRING token is the unescaped literal in which each
\* line has lost only its leading indentation prefix: a line that starts
\* with as many spaces as the tracked indent loses exactly those, and every
\* other character of the line, later runs of spaces included, is unchanged.
C18_OnlyPrefixRemoved ==
    [][Scanning("STRING")
         => /\ last_token'.type = "STRING"
            /\ last_token'.value
                  = StripPrefixes(Unescape(LiteralBody, 1, FALSE), cur_indent)]_vars

\* The character at i of a body is escaped: it follows a backslash that is
\* not escaped itself (the escape state lasts one character).
RECURSIVE IsEscaped(_, _)
IsEscaped(body, i) ==
    /\ i > 1
    /\ body[i - 1] = BSLASH
    /\ ~IsEscaped(body, i - 1)

\* What the character at i of a body emits.
Emitted(body, i) ==
    IF IsEscaped(body, i)
    THEN (IF body[i] = "n" THEN <<NL>>
          ELSE IF body[i] = "t" THEN <<TAB>>
          ELSE <<body[i]>>)
    ELSE IF body[i] = BSLASH THEN <<>>
    ELSE <<body[i]>>

\* What the characters of a body from i on emit, left to right.
RECURSIVE EscapeProcessed(_, _)
EscapeProcessed(body, i) ==
    IF i > Len(body) THEN <<>>
    ELSE Emitted(body, i) \o EscapeProcessed(body, i + 1)

\* C19: escape processing scans the body of a literal left to right with a
\* one-character escape state: a backslash that is not escaped emits nothing
\* and escapes the next character; an escaped n emits a newline, an escaped
\* t a tab, any other escaped character (backslash and quote included)
\* itself; every other character is emitted as it is.  The STRING token
\* carries the de-indentation of what was emitted.
C19_EscapeProcessing ==
    [][Scanning("STRING")
         => /\ last_token'.type = "STRING"
            /\ last_token'.value
                  = Deindent(EscapeProcessed(LiteralBody, 1), cur_indent)]_vars

\* C19's case: the literal "\\n" was returned: an escaped backslash, and an
\* n that the backslash before it does not escape.
C19_Witness ==
    /\ last_token.type = "STRING"
    /\ Len(lexdata) >= last_token.lexpos + 5
    /\ Sub(lexdata, last_token.lexpos, last_token.lexpos + 5)
           = <<QUOTE, BSLASH, BSLASH, "n", QUOTE>>

\* The positions of the unrecognized characters of the scanned text from
\* pos on, in order.
RECURSIVE UnrecognizedAt(_, _)
UnrecognizedAt(data, pos) ==
    IF pos >= Len(data) THEN <<>>
    ELSE IF At(data, pos) \in t_ignore THEN UnrecognizedAt(data, pos + 1)
    ELSE LET m == Match(data, pos)
         IN IF m.rule = "error"
            THEN <<pos>> \o UnrecognizedAt(data, pos + 1)
            ELSE UnrecognizedAt(data, m.end)

\* The 1-based number of the line that holds position pos: one plus the
\* number of newlines before it.
TrueLine(pos) == 1 + Count(Sub(lexdata, 0, pos), NL)

\* C20: every (character, line) pair of the error list carries the number of
\* the line on which the unrecognized character occurs, one plus the number
\* of newlines before it, also after full-line comments, trailing comments
\* and literals that span lines.
C20_ErrorLinesAreTrue ==
    LET at == UnrecognizedAt(lexdata, 0)
    IN \A i \in 1..Len(errors) :
           i <= Len(at) /\ errors[i][2] = TrueLine(at[i])


\* The INDENT tokens minus the DEDENT tokens of a sequence of tokens.
RECURSIVE Balance(_)
Balance(toks) ==
    IF toks = <<>> THEN 0
    ELSE (IF Head(toks).type = "INDENT" THEN 1
          ELSE IF Head(toks).type = "DEDENT" THEN -1
          ELSE 0) + Balance(Tail(toks))

\* C21: in every reachable state the tracked indent is a non-negative
\* multiple of 4 and equals 4 times the INDENT tokens minus the DEDENT tokens
\* produced so far, those still pending included; no prefix of the tokens
\* returned has more DEDENTs than INDENTs, and at the end marker the tokens
\* returned hold as many INDENTs as DEDENTs.
C21_IndentIsBalance ==
    /\ cur_indent >= 0
    /\ cur_indent % 4 = 0
    /\ cur_indent = 4 * Balance(out \o tokens_queue)
    /\ \A k \in 0..Len(out) : Balance(Slice(out, 1, k)) >= 0
    /\ pc = "done" => Balance(out) = 0

\* C21's case: a block was opened and its INDENT returned, and the DEDENT
\* that closes it is produced and still pending: the tracked indent is 0.
C21_Witness ==
    /\ pc = "run"
    /\ cur_indent = 0
    /\ Kinds(tokens_queue) = <<"DEDENT">>
    /\ \E i \in 1..Len(out) : out[i].type = "INDENT"


\* The declaration of the field called name in the effective field list of
\* the class the program holds.
Declared(name) ==
    all_fields(data_type)[ParameterIndex(all_fields(data_type), name)]

\* C22: reading a field of a struct instance returns the stored value when
\* the field is present; when it is absent, None if the field's type is
\* nullable, else the declared default if there is one, else it raises
\* AttributeError; nullable goes before a declared default, and reading
\* leaves the instance as it is.
C22_Getter ==
    [][request'.op = "get"
         => LET name == request'.name
                field == Declared(name)
            IN /\ self' = self
               /\ response' =
                     IF self.present[name] THEN Returned(self.value[name])
                     ELSE IF field.validator.kind = "Nullable" THEN Returned(PyNone)
                     ELSE IF field.has_default THEN Returned(field.default)
                     ELSE AttributeError]_vars

\* C22's case: the nullable field g, which declares the default 7, was read
\* while absent on an instance whose class inherits it, and None came back.
C22_Witness ==
    /\ request.op = "get"
    /\ request.name = "g"
    /\ data_type.supertype # <<>>
    /\ "g" \in _field_names_(data_type.supertype[1])
    /\ "h" \in _field_names_(data_type)
    /\ ~self.present["g"]
    /\ self.present["h"]
    /\ response = Returned(PyNone)

\* The instance obj with the field called name absent.
Without(obj, name) ==
    [obj EXCEPT !.present[name] = FALSE, !.value[name] = PyNone]

\* The instance obj with the field called name present with the value val.
With(obj, name, val) ==
    [obj EXCEPT !.present[name] = TRUE, !.value[name] = val]

\* What the validator of a field returns for a value, or its error.
Checked(field, val) ==
    IF IsComposite(field.validator)
    THEN ValidateTypeOnly(field.validator, val)
    ELSE ValidateValue(field.validator, val)

\* C23: after any constructor, setter and deleter calls every field of a
\* struct instance is absent, with flag false and stored value None, or
\* present, with flag true and the value its last successful set stored: a
\* successful set makes its field present with the validated value and
\* leaves the other fields alone, a set whose validation fails changes
\* nothing, setting None on a nullable field does what deleting it does, and
\* a delete makes its field absent.
C23_FieldsAbsentOrSet ==
    /\ [](self # NoInstance
            => \A n \in _field_names_(data_type) :
                  \/ ~self.present[n] /\ self.value[n] = PyNone
                  \/ self.present[n] /\ Checked(Declared(n), self.value[n]).ok)
    /\ [][request'.op = "set"
            => LET name == request'.name
                   val == request'.val
                   field == Declared(name)
               IN IF field.validator.kind = "Nullable" /\ val = PyNone
                  THEN self' = Without(self, name) /\ response'.ok
                  ELSE IF Checked(field, val).ok
                  THEN /\ self' = With(self, name, Checked(field, val).value)
                       /\ response'.ok
                  ELSE self' = self /\ ~response'.ok]_vars
    /\ [][request'.op = "del" => self' = Without(self, request'.name)]_vars

\* C23's case: a set of h that failed validation left the value 1 of an
\* earlier successful set in place, and the field f absent.
C23_Witness ==
    /\ request.op = "set"
    /\ ~response.ok
    /\ request.name = "h"
    /\ request.val = PyStr("abc")
    /\ "f" \in _field_names_(data_type)
    /\ self.present["h"]
    /\ self.value["h"] = PyInt(1)
    /\ ~self.present["f"]

\* The arguments of the constructor call are None or values their fields'
\* validators accept.
ArgumentsAccepted ==
    \A n \in _field_names_(data_type) :
        request.args[n] = PyNone \/ Checked(Declared(n), request.args[n]).ok

\* C24: for a struct class with a supertype chain of any depth, the
\* constructor leaves every field, own or inherited, whose argument is not
\* None present with exactly that argument, and every field whose argument
\* is None absent: the arguments forwarded to the supertype's constructor
\* reach the fields of the same name.
C24_ConstructorSetsByName ==
    (request.op = "init" /\ ArgumentsAccepted)
        => /\ response.ok
           /\ \A n \in _field_names_(data_type) :
                 IF request.args[n] = PyNone
                 THEN ~self.present[n]
                 ELSE self.present[n] /\ self.value[n] = request.args[n]


\* The constructor call of the request meets the conditions of a successful
\* construction: the tag is a key of the class's tag map, a Symbol variant
\* gets no value, any other variant a value its validator accepts.
MayConstruct ==
    /\ request.tag \in DOMAIN TagMap(data_type)
    /\ IF TagMap(data_type)[request.tag].kind = "Symbol"
       THEN request.value = PyNone
       ELSE ValidateValue(TagMap(data_type)[request.tag], request.value).ok

\* Construction succeeds exactly under MayConstruct and gives the instance
\* of the tag and the value; exactly one is_<tag>() over the tags of the
\* class is true, that of the constructed tag.
ConstructedAndTagged ==
    /\ request.op = "init"
          => /\ response.ok <=> MayConstruct
             /\ response.ok => self = UnionInstance(request.tag, request.value)
             /\ ~response.ok => self = NoInstance
    /\ request.op = "is"
          => /\ response = Returned(PyBool(request.name = self.tag))
             /\ self.tag \in DOMAIN TagMap(data_type)

\* C25 as claimed: construction succeeds only under the conditions on tag
\* and value; for every instance exactly one is_<tag>() is true, the
\* constructed tag's, get_<tag>() of the constructed tag returns the
\* constructed value, and get_<other>() raises AttributeError for every
\* other tag that is no Symbol.
C25_UnionInstance ==
    /\ ConstructedAndTagged
    /\ request.op = "get"
          => IF request.name = self.tag
             THEN response = Returned(self.value)
             ELSE TagMap(data_type)[request.name].kind # "Symbol"
                      => response = AttributeError

\* C25 amended: as claimed, but get_<tag>() of the constructed tag returns
\* the constructed value only when the tag is no Symbol: a Symbol variant
\* has no get_<tag>, and calling it raises AttributeError whatever the
\* instance.
C25_UnionInstanceGetters ==
    /\ ConstructedAndTagged
    /\ request.op = "get"
          => IF request.name = self.tag
                /\ TagMap(data_type)[request.name].kind # "Symbol"
             THEN response = Returned(self.value)
             ELSE response = AttributeError

\* C25's case: an instance of a class that extends another was constructed
\* with the inherited tag y and the value 50, and the getter of its own list
\* variant d was called on it.
C25_Witness ==
    /\ request.op = "get"
    /\ request.name = "d"
    /\ data_type.subtype # <<>>
    /\ self = UnionInstance("y", PyInt(50))
    /\ "d" \in DOMAIN DictOf(data_type.fields)
    /\ response = AttributeError

====
